---- MODULE Spec2Model ----
(***************************************************************************)
(* A model of Elemental's Infeasible Path-Following interior-point solver  *)
(* for linear programs in direct conic form (lp::direct::IPF) and of the   *)
(* utilities next to it.  Reals are exact rationals <<numerator,           *)
(* denominator>>; vectors are sequences of rationals; a matrix is a        *)
(* sequence of rows.                                                       *)
(***************************************************************************)
EXTENDS Integers, Sequences, FiniteSets, TLC

(***************************************************************************)
(* Exact rational arithmetic standing for the scalar type Real.            *)
(***************************************************************************)
RECURSIVE GCD(_, _)
GCD(a, b) == IF b = 0 THEN a ELSE GCD(b, a % b)

IAbs(i) == IF i < 0 THEN -i ELSE i

Rat(n, d) ==
    LET s == IF d < 0 THEN -1 ELSE 1
        g == GCD(IAbs(n), IAbs(d))
    IN  <<(s * n) \div g, (s * d) \div g>>

RAdd(p, q) ==
    LET l == (p[2] \div GCD(p[2], q[2])) * q[2]
    IN  Rat(p[1] * (l \div p[2]) + q[1] * (l \div q[2]), l)

RNeg(p) == <<-p[1], p[2]>>

RSub(p, q) == RAdd(p, RNeg(q))

RMul(p, q) ==
    LET g1 == GCD(IAbs(p[1]), q[2])
        g2 == GCD(IAbs(q[1]), p[2])
    IN  <<(p[1] \div g1) * (q[1] \div g2), (p[2] \div g2) * (q[2] \div g1)>>

RDiv(p, q) == RMul(p, IF q[1] < 0 THEN <<-q[2], -q[1]>> ELSE <<q[2], q[1]>>)

\* a/b <= c/d for b, d > 0, by the continued fractions of the two (no product
\* is formed, so that the comparison stays within 32-bit integers)
RECURSIVE FracLeq(_, _, _, _)
FracLeq(a, b, c, d) ==
    IF a \div b # c \div d THEN a \div b < c \div d
    ELSE IF a % b = 0 THEN TRUE
    ELSE IF c % d = 0 THEN FALSE
    ELSE FracLeq(d, c % d, b, a % b)

RLeq(p, q) == FracLeq(p[1], p[2], q[1], q[2])

RLt(p, q) == ~RLeq(q, p)

RAbs(p) == <<IAbs(p[1]), p[2]>>

RMax(p, q) == IF RLt(p, q) THEN q ELSE p

RMin(p, q) == IF RLt(q, p) THEN q ELSE p

Zero == <<0, 1>>

One == <<1, 1>>

(***************************************************************************)
(* The BLAS-like kernels the solver calls.                                 *)
(***************************************************************************)
RECURSIVE DotUpTo(_, _, _)
DotUpTo(a, b, k) ==
    IF k = 0 THEN Zero ELSE RAdd(DotUpTo(a, b, k - 1), RMul(a[k], b[k]))

Dot(a, b) == DotUpTo(a, b, Len(a))

\* the 2-norm; the vectors of the model have one entry, where it is |v[1]|
Nrm2(v) == IF Len(v) = 0 THEN Zero ELSE RAbs(v[1])

Axpy(alpha, dv, v) == [i \in DOMAIN v |-> RAdd(v[i], RMul(alpha, dv[i]))]

DiagonalScale(d, v) == [i \in DOMAIN v |-> RMul(d[i], v[i])]

DiagonalSolve(d, v) == [i \in DOMAIN v |-> RDiv(v[i], d[i])]

\* y := A x + y
GemvN(M, v, w) == [i \in DOMAIN w |-> RAdd(Dot(M[i], v), w[i])]

\* y := A^T x + y
GemvT(M, v, w) ==
    [j \in DOMAIN w |-> RAdd(Dot([i \in DOMAIN M |-> M[i][j]], v), w[j])]

NumNonPositive(v) == Cardinality({i \in DOMAIN v : RLeq(v[i], Zero)})

RECURSIVE MaxStepUpTo(_, _, _, _)
MaxStepUpTo(s, ds, upperBound, k) ==
    IF k = 0 THEN upperBound
    ELSE LET prev == MaxStepUpTo(s, ds, upperBound, k - 1)
         IN  IF RLt(ds[k], Zero)
             THEN RMin(prev, RDiv(RNeg(s[k]), ds[k]))
             ELSE prev

MaxStepInPositiveCone(s, ds, upperBound) == MaxStepUpTo(s, ds, upperBound, Len(s))

(***************************************************************************)
(* Inputs of the model: the regimes and KKT systems, a 1 x 1 linear        *)
(* program  min 4x  s.t.   x = 1, x >= 0,  the iterates a caller may       *)
(* supply, and what the collaborators (GeomEquil, Initialize, the KKT      *)
(* solve, the line search) may answer.                                     *)
(***************************************************************************)
MaxIts == 2

AlphaSteps == 2

Regimes == {"SeqDense", "DistDense", "SeqSparse", "DistSparse"}

Sparse(r) == r \in {"SeqSparse", "DistSparse"}

ValidSystems == {"FULL_KKT", "AUGMENTED_KKT", "NORMAL_KKT"}

Systems == ValidSystems \cup {"INVALID"}

TolPairs == { [targetTol |-> <<1, 10>>, minTol |-> <<1, 2>>],
              [targetTol |-> <<1, 5>>, minTol |-> <<2, 5>>],
              [targetTol |-> <<1, 2>>, minTol |-> <<1, 10>>] }

APre == << <<(<<1, 1>>)>> >>

bPre == <<(<<1, 1>>)>>

cPre == <<(<<4, 1>>)>>

\* caller-supplied iterates: nearly optimal, moderately off, far off, and two
\* that are outside the open cone
SuppliedIterates ==
    { [x |-> <<(<<1, 1>>)>>, y |-> <<(<<-4, 1>>)>>, z |-> <<(<<1, 4>>)>>],
      [x |-> <<(<<1, 1>>)>>, y |-> <<(<<-2, 1>>)>>, z |-> <<(<<4, 1>>)>>],
      [x |-> <<(<<2, 1>>)>>, y |-> <<(<<0, 1>>)>>, z |-> <<(<<1, 1>>)>>],
      [x |-> <<(<<0, 1>>)>>, y |-> <<(<<-4, 1>>)>>, z |-> <<(<<1, 4>>)>>],
      [x |-> <<(<<1, 1>>)>>, y |-> <<(<<-4, 1>>)>>, z |-> <<(<<-1, 4>>)>>] }

\* what Initialize may produce for the parts the caller did not supply
InitializedIterates ==
    { [x |-> <<(<<1, 1>>)>>, y |-> <<(<<-4, 1>>)>>, z |-> <<(<<1, 4>>)>>],
      [x |-> <<(<<4, 1>>)>>, y |-> <<(<<-8, 1>>)>>, z |-> <<(<<1, 4>>)>>],
      [x |-> <<(<<2, 1>>)>>, y |-> <<(<<0, 1>>)>>, z |-> <<(<<1, 1>>)>>] }

\* the scalings GeomEquil may return
EquilChoices == { [dRow |-> <<(<<1, 2>>)>>, dCol |-> <<(<<2, 1>>)>>] }

\* the directions a successful KKT solve may return; the second is the Newton
\* direction at x = 1, y = -2, z = 4 for centering 3/4
Directions ==
    { [dx |-> <<(<<-1, 1>>)>>, dy |-> <<(<<-1, 1>>)>>, dz |-> <<(<<-1, 1>>)>>],
      [dx |-> <<(<<0, 1>>)>>, dy |-> <<(<<1, 1>>)>>, dz |-> <<(<<-1, 1>>)>>] }

\* what dy may hold when the solve of the normal equations throws: the
\* right-hand side that NormalKKTRHS wrote into it, or what the solve in place
\* made of it
NormalKKTRHS == { <<(<<-70, 1>>)>>, <<(<<3, 1>>)>> }

Empty == << >>

NoDir == [dx |-> Empty, dy |-> Empty, dz |-> Empty]

(***************************************************************************)
(* The state of one call of IPF.                                           *)
(***************************************************************************)
VARIABLES
    regime,    \* which of the four overloads runs
    ctrl,      \* IPFCtrl
    A, b, c,   \* the solver's (equilibrated) copy of the linear program
    dRow, dCol,\* the equilibration scalings
    x, y, z,   \* the iterate, the caller's vectors modified in place
    numIts,    \* the loop counter
    relError,  \* Real relError
    dir,       \* dx, dy, dz of the current iteration
    alpha,     \* the step length the line search returned
    sym,       \* sparse regimes: the symbolic factorization (map, info), reg
    meta,      \* distributed sparse: the cached multiplication metadata
    pc,        \* the place the call has reached
    err,       \* the error thrown, if any
    hist       \* history: the supplied and start-of-iteration iterates, counts

ipfVars == <<regime, ctrl, A, b, c, dRow, dCol, x, y, z, numIts, relError, dir,
             alpha, sym, meta, pc, err, hist>>

(***************************************************************************)
(* The state of one call of SafeScale( numerator, denominator, A ).        *)
(***************************************************************************)
VARIABLES
    numerator,   \* Real numerator, rewritten by SafeScaleStep
    denominator, \* Real denominator, rewritten by SafeScaleStep
    scaleAlpha,  \* Real alpha, the factor of the current step
    done,        \* bool done
    target,      \* an entry of the matrix A that is scaled
    tridiag,     \* SafeScaleHermitianTridiagonal: an entry of d and one of e
    scaleHist    \* history: the arguments, the steps applied, their product

scaleVars == <<numerator, denominator, scaleAlpha, done, target, tridiag,
               scaleHist>>

(***************************************************************************)
(* The state of one call of blas::Dotu( x, y ) on a process grid.          *)
(***************************************************************************)
VARIABLES
    dotCall,     \* the grid, the distribution and alignments of y, x and y
    dotPc,       \* the place each process has reached
    localDotu,   \* T localDotu of each process
    globalDotu   \* T globalDotu of each process

dotVars == <<dotCall, dotPc, localDotu, globalDotu>>

(***************************************************************************)
(* The state of one call of MultiShiftHessSolve( uplo, orientation, alpha, *)
(* H, shifts, X ).                                                         *)
(***************************************************************************)
VARIABLES
    mshsCall,    \* the arguments, the overload and the build of the call
    mshs         \* X and the locals C, S, W, t1, t2 of all processes, and
                 \* of each process the place reached, k and the collectives

\* the routines that a call of IPF leaves alone
kernelVars == <<scaleVars, dotVars, mshsCall, mshs>>

vars == <<ipfVars, kernelVars>>

\* no call of MultiShiftHessSolve is in progress
MshsIdle ==
    /\ mshsCall = [uplo |-> "LOWER", orientation |-> "NORMAL", alpha |-> <<1, 1>>,
                   H |-> << >>, shifts |-> << >>, X |-> << >>,
                   dist |-> FALSE, debug |-> FALSE, gridSize |-> 1,
                   colAlign |-> 0, rowAlign |-> 0]
    /\ mshs = [pc |-> [r \in {0} |-> "Idle"], k |-> [r \in {0} |-> 0],
               coll |-> [r \in {0} |-> 0], due |-> [r \in {0} |-> 0],
               routine |-> "None", err |-> "None", X |-> << >>, C |-> << >>,
               S |-> << >>, W |-> << >>, t1 |-> << >>, t2 |-> << >>,
               rational |-> TRUE, log |-> << >>]

\* no call of Dotu is in progress
DotuIdle ==
    /\ dotCall = [height |-> 0, width |-> 0, yDist |-> "MC_MR",
                  xIsCol |-> TRUE, yIsCol |-> TRUE,
                  colAlign |-> 0, rowAlign |-> 0, xv |-> << >>, yv |-> << >>]
    /\ dotPc = << >>
    /\ localDotu = << >>
    /\ globalDotu = << >>

\* the call is not one of SafeScaleHermitianTridiagonal
NoTridiag ==
    [on |-> FALSE,
     d |-> [k |-> "zero", s |-> 1, e |-> 0],
     e |-> [k |-> "zero", s |-> 1, e |-> 0],
     dApplied |-> [k |-> "fin", s |-> 1, e |-> 0],
     eApplied |-> [k |-> "fin", s |-> 1, e |-> 0],
     dScalings |-> 0, eScalings |-> 0]

\* no call of SafeScale is in progress
ScaleIdle ==
    /\ tridiag = NoTridiag
    /\ numerator = [k |-> "zero", s |-> 1, e |-> 0]
    /\ denominator = [k |-> "zero", s |-> 1, e |-> 0]
    /\ scaleAlpha = [k |-> "zero", s |-> 1, e |-> 0]
    /\ done = TRUE
    /\ target = [k |-> "zero", s |-> 1, e |-> 0]
    /\ scaleHist = [numerator |-> [k |-> "zero", s |-> 1, e |-> 0],
                    denominator |-> [k |-> "zero", s |-> 1, e |-> 0],
                    target |-> [k |-> "zero", s |-> 1, e |-> 0],
                    steps |-> 0,
                    applied |-> [k |-> "fin", s |-> 1, e |-> 0]]

lp == <<A, b, c, dRow, dCol>>

iterate == <<x, y, z>>

(***************************************************************************)
(* The tests of the loop.                                                  *)
(***************************************************************************)
\* a loop that runs one iteration too many
LoopCond_OneMore(k, ct) == k <= ct.maxIts + 1

\* for( Int numIts=0; numIts<=ctrl.maxIts; ++numIts )
LoopCond(k, ct) == k <= ct.maxIts

\* a guard that lets zero entries pass
OutsideCone_Negative(xv, zv) ==
    \/ \E i \in DOMAIN xv : RLt(xv[i], Zero)
    \/ \E i \in DOMAIN zv : RLt(zv[i], Zero)

\* xNumNonPos > 0 || zNumNonPos > 0
OutsideCone(xv, zv) == NumNonPositive(xv) > 0 \/ NumNonPositive(zv) > 0

\* relError = Max(Max(objConv,rbConv),rcConv)
RelError(Am, bv, cv, xv, yv, zv) ==
    LET bNrm2   == Nrm2(bv)
        cNrm2   == Nrm2(cv)
        primObj == Dot(cv, xv)
        dualObj == RNeg(Dot(bv, yv))
        objConv == RDiv(RAbs(RSub(primObj, dualObj)), RAdd(One, RAbs(primObj)))
        rb      == GemvN(Am, xv, [i \in DOMAIN bv |-> RNeg(bv[i])])
        rbConv  == RDiv(Nrm2(rb), RAdd(One, bNrm2))
        rcy     == GemvT(Am, yv, cv)
        rc      == [j \in DOMAIN cv |-> RSub(rcy[j], zv[j])]
        rcConv  == RDiv(Nrm2(rc), RAdd(One, cNrm2))
    IN  RMax(RMax(objConv, rbConv), rcConv)

\* a convergence test against the wrong tolerance
Converged_MinTol(e, ct) == RLeq(e, ct.minTol)

\* if( relError <= ctrl.targetTol ) break;
Converged(e, ct) == RLeq(e, ct.targetTol)

\* a budget test that is also fatal at relError = minTol
BudgetExceeded_AtLeast(k, e, ct) == k = ct.maxIts /\ RLeq(ct.minTol, e)

\* if( numIts == ctrl.maxIts && relError > ctrl.minTol ) RuntimeError
BudgetExceeded(k, e, ct) == k = ct.maxIts /\ RLt(ct.minTol, e)

\* a soft accept against the wrong tolerance
SoftAccept_TargetTol(e, ct) == RLeq(e, ct.targetTol)

\* if( relError <= ctrl.minTol ) break; else RuntimeError
SoftAccept(e, ct) == RLeq(e, ct.minTol)

\* a step bound without the 0.99 safety factor
StepBound_Full(alphaMax) == alphaMax

\* Real(0.99)*alphaMax
StepBound(alphaMax) == RMul(<<99, 100>>, alphaMax)

\* alphaMax = Min(alphaPrimal,alphaDual)
AlphaMax(xv, zv, d) ==
    RMin(MaxStepInPositiveCone(xv, d.dx, One), MaxStepInPositiveCone(zv, d.dz, One))

\* the steps IPFLineSearch may return: points of [0, upper bound]
LineSearchSteps(bound) ==
    { RMul(Rat(k, AlphaSteps), bound) : k \in 0..AlphaSteps }

\* a loop without the zero-step test
ZeroStep_Never(a) == FALSE

\* if( alpha == Real(0) )
ZeroStep(a) == a = Zero

\* an un-equilibration tied to a supplied primal iterate
UnequilibrateWanted_PrimalOnly(ct) == ct.equilibrate /\ ct.primalInit

\* if( ctrl.equilibrate ) after the loop
UnequilibrateWanted(ct) == ct.equilibrate

\* before the loop: DiagonalScale( LEFT, NORMAL, dCol, x )
ScaleSuppliedX(d, v) == DiagonalScale(d, v)

\* before the loop: DiagonalScale( LEFT, NORMAL, dRow, y )
ScaleSuppliedY(d, v) == DiagonalScale(d, v)

\* a forward scaling of z that multiplies instead of dividing
ScaleSuppliedZ_Multiply(d, v) == DiagonalScale(d, v)

\* before the loop: DiagonalSolve( LEFT, NORMAL, dCol, z )
ScaleSuppliedZ(d, v) == DiagonalSolve(d, v)

\* after the loop: DiagonalSolve( LEFT, NORMAL, dCol, x )
UnscaleX(d, v) == DiagonalSolve(d, v)

\* an un-equilibration of y that multiplies by dRow
UnscaleY_Multiply(d, v) == DiagonalScale(d, v)

\* after the loop: DiagonalSolve( LEFT, NORMAL, dRow, y )
UnscaleY(d, v) == DiagonalSolve(d, v)

\* after the loop: DiagonalScale( LEFT, NORMAL, dCol, z )
UnscaleZ(d, v) == DiagonalScale(d, v)

\* GeomEquil( A, dRow, dCol ): A := inv(diag(dRow)) A inv(diag(dCol))
GeomEquil(Am, e) ==
    [i \in DOMAIN Am |-> [j \in DOMAIN Am[i] |->
        RDiv(RDiv(Am[i][j], e.dRow[i]), e.dCol[j])]]

\* reg, as filled before the loop: +regPrimal in the first n entries and
\* -regDual in the others, for FULL_KKT and AUGMENTED_KKT; not sized otherwise
Reg(r, sys, m, n) ==
    IF ~Sparse(r) THEN Empty
    ELSE IF sys = "FULL_KKT"
    THEN [i \in 1..(m + 2 * n) |-> IF i <= n THEN "regPrimal" ELSE "-regDual"]
    ELSE IF sys = "AUGMENTED_KKT"
    THEN [i \in 1..(n + m) |-> IF i <= n THEN "regPrimal" ELSE "-regDual"]
    ELSE Empty

Ones(n) == [i \in 1..n |-> One]

(***************************************************************************)
(* The control flow of the four overloads of IPF.                          *)
(***************************************************************************)
\* what decides the iteration: place, counter, error, exit taken, updates made
Control ==
    [pc |-> pc, numIts |-> numIts, err |-> err, exit |-> hist.exit,
     upd |-> hist.upd]

\* IPF( const Matrix<Real>& A, ..., Matrix<Real>& x, ... ): the control flow of the
\* sequential dense overload. s is the control state, ct is ctrl; outside,
\* e, solve and a are what the overload observes: the cone test, relError,
\* the outcome of the factorization and solve, and the step length.
SeqDenseIPF(s, ct, outside, e, solve, a) ==
    CASE s.pc = "Equilibrate" -> [s EXCEPT !.pc = "Initialize"]          \* 55-78
      [] s.pc = "Initialize" -> [s EXCEPT !.pc = "LoopTest"]             \* 80-81
      [] s.pc = "LoopTest" ->                                             \* 91
            IF LoopCond(s.numIts, ct)
            THEN [s EXCEPT !.pc = "Guard"]
            ELSE [s EXCEPT !.pc = "Unequilibrate", !.exit = "budget"]
      [] s.pc = "Guard" ->                                                \* 95-100
            IF outside
            THEN [s EXCEPT !.pc = "Thrown", !.err = "ConeLogicError"]
            ELSE [s EXCEPT !.pc = "ConvergenceTest"]
      [] s.pc = "ConvergenceTest" ->                                      \* 136-137
            IF Converged(e, ct)
            THEN [s EXCEPT !.pc = "Unequilibrate", !.exit = "converged"]
            ELSE [s EXCEPT !.pc = "BudgetTest"]
      [] s.pc = "BudgetTest" ->                                           \* 138-141
            IF BudgetExceeded(s.numIts, e, ct)
            THEN [s EXCEPT !.pc = "Thrown", !.err = "MaxItsRuntimeError"]
            ELSE [s EXCEPT !.pc = "Direction"]
      [] s.pc = "Direction" ->
            CASE ct.system = "FULL_KKT" ->                                \* 152-171
                    IF solve = "ok" THEN [s EXCEPT !.pc = "Step"]
                    ELSE IF SoftAccept(e, ct)
                    THEN [s EXCEPT !.pc = "Unequilibrate", !.exit = "solveFailed"]
                    ELSE [s EXCEPT !.pc = "Thrown", !.err = "MinTolRuntimeError"]
              [] ct.system = "AUGMENTED_KKT" ->                           \* 172-191
                    IF solve = "ok" THEN [s EXCEPT !.pc = "Step"]
                    ELSE IF SoftAccept(e, ct)
                    THEN [s EXCEPT !.pc = "Unequilibrate", !.exit = "solveFailed"]
                    ELSE [s EXCEPT !.pc = "Thrown", !.err = "MinTolRuntimeError"]
              [] ct.system = "NORMAL_KKT" ->                              \* 192-211
                    IF solve = "ok" THEN [s EXCEPT !.pc = "Step"]
                    ELSE IF SoftAccept(e, ct)
                    THEN [s EXCEPT !.pc = "Unequilibrate", !.exit = "solveFailed"]
                    ELSE [s EXCEPT !.pc = "Thrown", !.err = "MinTolRuntimeError"]
              [] OTHER ->                                                 \* 212-213
                    [s EXCEPT !.pc = "Thrown", !.err = "InvalidSystemLogicError"]
      [] s.pc = "Step" ->                                                 \* 262-264, 265-272
            IF ZeroStep(a)
            THEN IF SoftAccept(e, ct)
                 THEN [s EXCEPT !.pc = "Unequilibrate", !.exit = "zeroStep",
                                !.upd = @ + 1]
                 ELSE [s EXCEPT !.pc = "Thrown", !.err = "MinTolRuntimeError",
                                !.upd = @ + 1]
            ELSE [s EXCEPT !.pc = "LoopTest", !.numIts = @ + 1, !.upd = @ + 1]
      [] s.pc = "Unequilibrate" -> [s EXCEPT !.pc = "Done"]              \* 276-282

\* IPF( const AbstractDistMatrix<Real>& A, ... ): the control flow of the
\* distributed dense overload. s is the control state, ct is ctrl; outside,
\* e, solve and a are what the overload observes: the cone test, relError,
\* the outcome of the factorization and solve, and the step length.
DistDenseIPF(s, ct, outside, e, solve, a) ==
    CASE s.pc = "Equilibrate" -> [s EXCEPT !.pc = "Initialize"]          \* 323-346
      [] s.pc = "Initialize" -> [s EXCEPT !.pc = "LoopTest"]             \* 348-349
      [] s.pc = "LoopTest" ->                                             \* 363
            IF LoopCond(s.numIts, ct)
            THEN [s EXCEPT !.pc = "Guard"]
            ELSE [s EXCEPT !.pc = "Unequilibrate", !.exit = "budget"]
      [] s.pc = "Guard" ->                                                \* 367-372
            IF outside
            THEN [s EXCEPT !.pc = "Thrown", !.err = "ConeLogicError"]
            ELSE [s EXCEPT !.pc = "ConvergenceTest"]
      [] s.pc = "ConvergenceTest" ->                                      \* 408-409
            IF Converged(e, ct)
            THEN [s EXCEPT !.pc = "Unequilibrate", !.exit = "converged"]
            ELSE [s EXCEPT !.pc = "BudgetTest"]
      [] s.pc = "BudgetTest" ->                                           \* 410-413
            IF BudgetExceeded(s.numIts, e, ct)
            THEN [s EXCEPT !.pc = "Thrown", !.err = "MaxItsRuntimeError"]
            ELSE [s EXCEPT !.pc = "Direction"]
      [] s.pc = "Direction" ->
            CASE ct.system = "FULL_KKT" ->                                \* 424-443
                    IF solve = "ok" THEN [s EXCEPT !.pc = "Step"]
                    ELSE IF SoftAccept(e, ct)
                    THEN [s EXCEPT !.pc = "Unequilibrate", !.exit = "solveFailed"]
                    ELSE [s EXCEPT !.pc = "Thrown", !.err = "MinTolRuntimeError"]
              [] ct.system = "AUGMENTED_KKT" ->                           \* 444-463
                    IF solve = "ok" THEN [s EXCEPT !.pc = "Step"]
                    ELSE IF SoftAccept(e, ct)
                    THEN [s EXCEPT !.pc = "Unequilibrate", !.exit = "solveFailed"]
                    ELSE [s EXCEPT !.pc = "Thrown", !.err = "MinTolRuntimeError"]
              [] ct.system = "NORMAL_KKT" ->                              \* 464-483
                    IF solve = "ok" THEN [s EXCEPT !.pc = "Step"]
                    ELSE IF SoftAccept(e, ct)
                    THEN [s EXCEPT !.pc = "Unequilibrate", !.exit = "solveFailed"]
                    ELSE [s EXCEPT !.pc = "Thrown", !.err = "MinTolRuntimeError"]
              [] OTHER ->                                                 \* 484-485
                    [s EXCEPT !.pc = "Thrown", !.err = "InvalidSystemLogicError"]
      [] s.pc = "Step" ->                                                 \* 534-536, 537-544
            IF ZeroStep(a)
            THEN IF SoftAccept(e, ct)
                 THEN [s EXCEPT !.pc = "Unequilibrate", !.exit = "zeroStep",
                                !.upd = @ + 1]
                 ELSE [s EXCEPT !.pc = "Thrown", !.err = "MinTolRuntimeError",
                                !.upd = @ + 1]
            ELSE [s EXCEPT !.pc = "LoopTest", !.numIts = @ + 1, !.upd = @ + 1]
      [] s.pc = "Unequilibrate" -> [s EXCEPT !.pc = "Done"]              \* 548-554

\* IPF( const SparseMatrix<Real>& A, ... ): the control flow of the
\* sequential sparse overload. s is the control state, ct is ctrl; outside,
\* e, solve and a are what the overload observes: the cone test, relError,
\* the outcome of the factorization and solve, and the step length.
SeqSparseIPF(s, ct, outside, e, solve, a) ==
    CASE s.pc = "Equilibrate" -> [s EXCEPT !.pc = "Initialize"]          \* 574-597
      [] s.pc = "Initialize" -> [s EXCEPT !.pc = "LoopTest"]             \* 605-620
      [] s.pc = "LoopTest" ->                                             \* 657
            IF LoopCond(s.numIts, ct)
            THEN [s EXCEPT !.pc = "Guard"]
            ELSE [s EXCEPT !.pc = "Unequilibrate", !.exit = "budget"]
      [] s.pc = "Guard" ->                                                \* 661-666
            IF outside
            THEN [s EXCEPT !.pc = "Thrown", !.err = "ConeLogicError"]
            ELSE [s EXCEPT !.pc = "ConvergenceTest"]
      [] s.pc = "ConvergenceTest" ->                                      \* 702-703
            IF Converged(e, ct)
            THEN [s EXCEPT !.pc = "Unequilibrate", !.exit = "converged"]
            ELSE [s EXCEPT !.pc = "BudgetTest"]
      [] s.pc = "BudgetTest" ->                                           \* 704-707
            IF BudgetExceeded(s.numIts, e, ct)
            THEN [s EXCEPT !.pc = "Thrown", !.err = "MaxItsRuntimeError"]
            ELSE [s EXCEPT !.pc = "Direction"]
      [] s.pc = "Direction" ->
            CASE ct.system = "FULL_KKT" ->                                \* 718-751
                    IF solve = "ok" THEN [s EXCEPT !.pc = "Step"]
                    ELSE IF SoftAccept(e, ct)
                    THEN [s EXCEPT !.pc = "Unequilibrate", !.exit = "solveFailed"]
                    ELSE [s EXCEPT !.pc = "Thrown", !.err = "MinTolRuntimeError"]
              [] ct.system = "AUGMENTED_KKT" ->                           \* 752-785
                    IF solve = "ok" THEN [s EXCEPT !.pc = "Step"]
                    ELSE IF SoftAccept(e, ct)
                    THEN [s EXCEPT !.pc = "Unequilibrate", !.exit = "solveFailed"]
                    ELSE [s EXCEPT !.pc = "Thrown", !.err = "MinTolRuntimeError"]
              [] ct.system = "NORMAL_KKT" ->                              \* 786-818
                    IF solve = "ok" THEN [s EXCEPT !.pc = "Step"]
                    ELSE IF SoftAccept(e, ct)
                    THEN [s EXCEPT !.pc = "Unequilibrate", !.exit = "solveFailed"]
                    ELSE [s EXCEPT !.pc = "Thrown", !.err = "MinTolRuntimeError"]
              [] OTHER ->                                                 \* 819-820
                    [s EXCEPT !.pc = "Thrown", !.err = "InvalidSystemLogicError"]
      [] s.pc = "Step" ->                                                 \* 871-873, 874-881
            IF ZeroStep(a)
            THEN IF SoftAccept(e, ct)
                 THEN [s EXCEPT !.pc = "Unequilibrate", !.exit = "zeroStep",
                                !.upd = @ + 1]
                 ELSE [s EXCEPT !.pc = "Thrown", !.err = "MinTolRuntimeError",
                                !.upd = @ + 1]
            ELSE [s EXCEPT !.pc = "LoopTest", !.numIts = @ + 1, !.upd = @ + 1]
      [] s.pc = "Unequilibrate" -> [s EXCEPT !.pc = "Done"]              \* 885-891

\* a distributed sparse overload whose handlers accept a failed solve only at
\* targetTol
DistSparseIPF_StrictHandler(s, ct, outside, e, solve, a) ==
    IF s.pc = "Direction" /\ ct.system \in ValidSystems /\ solve # "ok"
    THEN IF Converged(e, ct)
         THEN [s EXCEPT !.pc = "Unequilibrate", !.exit = "solveFailed"]
         ELSE [s EXCEPT !.pc = "Thrown", !.err = "MinTolRuntimeError"]
    ELSE SeqSparseIPF(s, ct, outside, e, solve, a)

\* IPF( const DistSparseMatrix<Real>& A, ... ): the control flow of the
\* distributed sparse overload. s is the control state, ct is ctrl; outside,
\* e, solve and a are what the overload observes: the cone test, relError,
\* the outcome of the factorization and solve, and the step length.
DistSparseIPF(s, ct, outside, e, solve, a) ==
    CASE s.pc = "Equilibrate" -> [s EXCEPT !.pc = "Initialize"]          \* 915-938
      [] s.pc = "Initialize" -> [s EXCEPT !.pc = "LoopTest"]             \* 946-961
      [] s.pc = "LoopTest" ->                                             \* 1001
            IF LoopCond(s.numIts, ct)
            THEN [s EXCEPT !.pc = "Guard"]
            ELSE [s EXCEPT !.pc = "Unequilibrate", !.exit = "budget"]
      [] s.pc = "Guard" ->                                                \* 1005-1010
            IF outside
            THEN [s EXCEPT !.pc = "Thrown", !.err = "ConeLogicError"]
            ELSE [s EXCEPT !.pc = "ConvergenceTest"]
      [] s.pc = "ConvergenceTest" ->                                      \* 1046-1047
            IF Converged(e, ct)
            THEN [s EXCEPT !.pc = "Unequilibrate", !.exit = "converged"]
            ELSE [s EXCEPT !.pc = "BudgetTest"]
      [] s.pc = "BudgetTest" ->                                           \* 1048-1051
            IF BudgetExceeded(s.numIts, e, ct)
            THEN [s EXCEPT !.pc = "Thrown", !.err = "MaxItsRuntimeError"]
            ELSE [s EXCEPT !.pc = "Direction"]
      [] s.pc = "Direction" ->
            CASE ct.system = "FULL_KKT" ->                                \* 1062-1105
                    IF solve = "ok" THEN [s EXCEPT !.pc = "Step"]
                    ELSE IF SoftAccept(e, ct)
                    THEN [s EXCEPT !.pc = "Unequilibrate", !.exit = "solveFailed"]
                    ELSE [s EXCEPT !.pc = "Thrown", !.err = "MinTolRuntimeError"]
              [] ct.system = "AUGMENTED_KKT" ->                           \* 1106-1151
                    IF solve = "ok" THEN [s EXCEPT !.pc = "Step"]
                    ELSE IF SoftAccept(e, ct)
                    THEN [s EXCEPT !.pc = "Unequilibrate", !.exit = "solveFailed"]
                    ELSE [s EXCEPT !.pc = "Thrown", !.err = "MinTolRuntimeError"]
              [] ct.system = "NORMAL_KKT" ->                              \* 1152-1187
                    IF solve = "ok" THEN [s EXCEPT !.pc = "Step"]
                    ELSE IF SoftAccept(e, ct)
                    THEN [s EXCEPT !.pc = "Unequilibrate", !.exit = "solveFailed"]
                    ELSE [s EXCEPT !.pc = "Thrown", !.err = "MinTolRuntimeError"]
              [] OTHER ->                                                 \* 1188-1189
                    [s EXCEPT !.pc = "Thrown", !.err = "InvalidSystemLogicError"]
      [] s.pc = "Step" ->                                                 \* 1240-1242, 1243-1250
            IF ZeroStep(a)
            THEN IF SoftAccept(e, ct)
                 THEN [s EXCEPT !.pc = "Unequilibrate", !.exit = "zeroStep",
                                !.upd = @ + 1]
                 ELSE [s EXCEPT !.pc = "Thrown", !.err = "MinTolRuntimeError",
                                !.upd = @ + 1]
            ELSE [s EXCEPT !.pc = "LoopTest", !.numIts = @ + 1, !.upd = @ + 1]
      [] s.pc = "Unequilibrate" -> [s EXCEPT !.pc = "Done"]              \* 1254-1260

\* overload resolution: the overload that the type of A selects
IPF(r, s, ct, outside, e, solve, a) ==
    CASE r = "SeqDense"   -> SeqDenseIPF(s, ct, outside, e, solve, a)
      [] r = "DistDense"  -> DistDenseIPF(s, ct, outside, e, solve, a)
      [] r = "SeqSparse"  -> SeqSparseIPF(s, ct, outside, e, solve, a)
      [] r = "DistSparse" -> DistSparseIPF(s, ct, outside, e, solve, a)

(***************************************************************************)
(* The call: IPF( A, b, c, x, y, z, ctrl ).                                *)
(***************************************************************************)
Init ==
    /\ ScaleIdle
    /\ DotuIdle
    /\ MshsIdle
    /\ regime \in Regimes
    /\ \E tp \in TolPairs, sys \in Systems, mi \in 0..MaxIts,
          eq \in BOOLEAN, pI \in BOOLEAN, dI \in BOOLEAN :
          ctrl = [equilibrate |-> eq, primalInit |-> pI, dualInit |-> dI,
                  system |-> sys, maxIts |-> mi,
                  targetTol |-> tp.targetTol, minTol |-> tp.minTol]
    /\ \E t \in SuppliedIterates :
          /\ x = IF ctrl.primalInit THEN t.x ELSE Empty
          /\ y = IF ctrl.dualInit THEN t.y ELSE Empty
          /\ z = IF ctrl.dualInit THEN t.z ELSE Empty
    /\ A = APre /\ b = bPre /\ c = cPre
    /\ dRow = Empty /\ dCol = Empty
    /\ numIts = 0
    /\ relError = One
    /\ dir = NoDir
    /\ alpha = Zero
    /\ sym = [mapSrc |-> "unset", ndCalls |-> 0, reg |-> Empty]
    /\ meta = [origInits |-> 0, jInits |-> 0, origReuses |-> 0, jReuses |-> 0]
    /\ pc = "Equilibrate"
    /\ err = "None"
    /\ hist = [inX |-> x, inY |-> y, inZ |-> z,
               itX |-> x, itY |-> y, itZ |-> z,
               equil |-> 0, body |-> 0, conv |-> 0, kkt |-> 0, upd |-> 0,
               uneq |-> 0,
               prep |-> Empty, solve |-> "none", exit |-> "none"]

\* Equilibrate the LP by diagonally scaling A
Equilibrate ==
    /\ pc = "Equilibrate"
    /\ IF ctrl.equilibrate
       THEN \E e \in EquilChoices :
              /\ A' = GeomEquil(A, e)
              /\ dRow' = e.dRow
              /\ dCol' = e.dCol
              /\ b' = DiagonalSolve(e.dRow, b)
              /\ c' = DiagonalSolve(e.dCol, c)
              /\ x' = IF ctrl.primalInit THEN ScaleSuppliedX(e.dCol, x) ELSE x
              /\ y' = IF ctrl.dualInit THEN ScaleSuppliedY(e.dRow, y) ELSE y
              /\ z' = IF ctrl.dualInit THEN ScaleSuppliedZ(e.dCol, z) ELSE z
              /\ hist' = [hist EXCEPT !.equil = @ + 1]
       ELSE /\ dRow' = Ones(Len(A))
            /\ dCol' = Ones(Len(A[1]))
            /\ UNCHANGED <<A, b, c, x, y, z, hist>>
    /\ LET t == IPF(regime, Control, ctrl, FALSE, relError, hist.solve, alpha)
       IN  pc' = t.pc /\ numIts' = t.numIts /\ err' = t.err
    /\ UNCHANGED <<kernelVars, regime, ctrl, relError, dir, alpha, sym, meta>>

\* Initialize( A, b, c, x, y, z, [map, invMap, rootSep, info,] primalInit, dualInit, ... )
Initialize ==
    /\ pc = "Initialize"
    /\ \E t \in InitializedIterates :
          /\ x' = IF ctrl.primalInit THEN x ELSE t.x
          /\ y' = IF ctrl.dualInit THEN y ELSE t.y
          /\ z' = IF ctrl.dualInit THEN z ELSE t.z
    /\ sym' = [sym EXCEPT
                  !.mapSrc = IF /\ Sparse(regime)
                                /\ ctrl.system = "AUGMENTED_KKT"
                                /\ ~(ctrl.primalInit /\ ctrl.dualInit)
                             THEN "Initialize"
                             ELSE @,
                  !.reg = Reg(regime, ctrl.system, Len(A), Len(A[1]))]
    /\ relError' = One
    /\ LET t == IPF(regime, Control, ctrl, FALSE, One, hist.solve, alpha)
       IN  pc' = t.pc /\ numIts' = t.numIts /\ err' = t.err
    /\ UNCHANGED <<kernelVars, regime, ctrl, lp, dir, alpha, meta, hist>>

\* the loop condition; entering the body starts an iteration
LoopTest ==
    /\ pc = "LoopTest"
    /\ LET t == IPF(regime, Control, ctrl, FALSE, relError, hist.solve, alpha)
       IN  /\ pc' = t.pc /\ numIts' = t.numIts /\ err' = t.err
           /\ hist' = IF t.pc = "Guard"
                      THEN [hist EXCEPT !.itX = x, !.itY = y, !.itZ = z,
                                        !.body = @ + 1, !.prep = Empty,
                                        !.solve = "none"]
                      ELSE [hist EXCEPT !.exit = t.exit]
    /\ UNCHANGED <<kernelVars, regime, ctrl, lp, iterate, relError, dir, alpha,
                   sym, meta>>

\* Ensure that x and z are in the cone
Guard ==
    /\ pc = "Guard"
    /\ LET t == IPF(regime, Control, ctrl, OutsideCone(x, z), relError,
                    hist.solve, alpha)
       IN  pc' = t.pc /\ numIts' = t.numIts /\ err' = t.err
    /\ UNCHANGED <<kernelVars, regime, ctrl, lp, iterate, relError, dir, alpha,
                   sym, meta, hist>>

\* Check for convergence
ConvergenceTest ==
    /\ pc = "ConvergenceTest"
    /\ LET e == RelError(A, b, c, x, y, z)
           t == IPF(regime, Control, ctrl, FALSE, e, hist.solve, alpha)
       IN  /\ relError' = e
           /\ pc' = t.pc /\ numIts' = t.numIts /\ err' = t.err
           /\ hist' = [hist EXCEPT !.conv = @ + 1, !.exit = t.exit]
    /\ UNCHANGED <<kernelVars, regime, ctrl, lp, iterate, dir, alpha, sym, meta>>

BudgetTest ==
    /\ pc = "BudgetTest"
    /\ LET t == IPF(regime, Control, ctrl, FALSE, relError, hist.solve, alpha)
       IN  pc' = t.pc /\ numIts' = t.numIts /\ err' = t.err
    /\ UNCHANGED <<kernelVars, regime, ctrl, lp, iterate, relError, dir, alpha,
                   sym, meta, hist>>

\* what is done, in order, to the matrix that is factored in an iteration
Preparation(r, sys) ==
    IF ~Sparse(r) THEN << CASE sys = "FULL_KKT" -> "KKT"
                            [] sys = "AUGMENTED_KKT" -> "AugmentedKKT"
                            [] sys = "NORMAL_KKT" -> "NormalKKT" >>
    ELSE CASE sys = "FULL_KKT" ->
                <<"KKT", "SymmetricGeomEquil", "UpdateRealPartOfDiagonal">>
           [] sys = "AUGMENTED_KKT" ->
                <<"AugmentedKKT", "SymmetricGeomEquil", "UpdateRealPartOfDiagonal">>
           [] sys = "NORMAL_KKT" -> <<"NormalKKT">>

\* distributed sparse: the systems that form JOrig beside J
HasJOrig(sys) == sys \in {"FULL_KKT", "AUGMENTED_KKT"}

\* distributed sparse: if( numIts == 0 ) meta = J.InitializeMultMeta()
MultMetaDue(k) == k = 0

\* symbolic analysis in every iteration
SymbolicAnalysisDue_EveryIteration(r, ct, k) ==
    /\ Sparse(r)
    /\ \/ ct.system \in {"FULL_KKT", "NORMAL_KKT"}
       \/ ct.system = "AUGMENTED_KKT" /\ ct.primalInit /\ ct.dualInit

\* symbolic analysis at the first iteration whatever Initialize was given
SymbolicAnalysisDue_Unconditional(r, ct, k) == Sparse(r) /\ k = 0

\* sparse regimes: NestedDissection and InvertMap inside the loop
SymbolicAnalysisDue(r, ct, k) ==
    /\ Sparse(r)
    /\ k = 0
    /\ \/ ct.system \in {"FULL_KKT", "NORMAL_KKT"}
       \/ ct.system = "AUGMENTED_KKT" /\ ct.primalInit /\ ct.dualInit

\* Construct the KKT system, factor and solve: what the attempt, with outcome
\* solve, leaves in the factorization state, and where the overload goes
BuildKKT(solve) ==
    /\ LET t == IPF(regime, Control, ctrl, FALSE, relError, solve, alpha)
       IN  /\ pc' = t.pc /\ numIts' = t.numIts /\ err' = t.err
           /\ hist' = [hist EXCEPT !.kkt = @ + 1,
                                   !.prep = Preparation(regime, ctrl.system),
                                   !.solve = solve,
                                   !.exit = t.exit]
    /\ sym' = IF SymbolicAnalysisDue(regime, ctrl, numIts)
              THEN [sym EXCEPT !.mapSrc = "NestedDissection",
                               !.ndCalls = @ + 1]
              ELSE sym
    /\ meta' = IF regime # "DistSparse" THEN meta
               ELSE IF MultMetaDue(numIts)
               THEN [meta EXCEPT !.origInits = @ + (IF HasJOrig(ctrl.system)
                                                    THEN 1 ELSE 0),
                                 !.jInits = @ + 1]
               ELSE [meta EXCEPT !.origReuses = @ + (IF HasJOrig(ctrl.system)
                                                     THEN 1 ELSE 0),
                                 !.jReuses = @ + 1]

\* Compute the search direction
Direction ==
    /\ pc = "Direction"
    /\ \/ /\ ctrl.system \in ValidSystems
          /\ \/ \E d \in Directions :
                   /\ BuildKKT("ok")
                   /\ dir' = d
             \/ /\ BuildKKT("threw")
                \* FULL_KKT and AUGMENTED_KKT solve in d; NORMAL_KKT forms
                \* the right-hand side in dy and solves in place
                /\ \E rhs \in IF ctrl.system = "NORMAL_KKT" THEN NormalKKTRHS
                                ELSE {dir.dy} :
                      dir' = [dir EXCEPT !.dy = rhs]
       \/ /\ ctrl.system \notin ValidSystems
          /\ LET t == IPF(regime, Control, ctrl, FALSE, relError, hist.solve, alpha)
             IN  pc' = t.pc /\ numIts' = t.numIts /\ err' = t.err
          /\ UNCHANGED <<dir, sym, meta, hist>>
    /\ UNCHANGED <<kernelVars, regime, ctrl, lp, iterate, relError, alpha>>

\* Take a step in the computed direction
Step ==
    /\ pc = "Step"
    /\ \E a \in LineSearchSteps(StepBound(AlphaMax(x, z, dir))) :
          LET t == IPF(regime, Control, ctrl, FALSE, relError, hist.solve, a)
          IN  /\ alpha' = a
              /\ x' = Axpy(a, dir.dx, x)
              /\ y' = Axpy(a, dir.dy, y)
              /\ z' = Axpy(a, dir.dz, z)
              /\ pc' = t.pc /\ numIts' = t.numIts /\ err' = t.err
              /\ hist' = [hist EXCEPT !.upd = t.upd, !.exit = t.exit]
    /\ UNCHANGED <<kernelVars, regime, ctrl, lp, relError, dir, sym, meta>>

\* Unequilibrate the LP
Unequilibrate ==
    /\ pc = "Unequilibrate"
    /\ IF UnequilibrateWanted(ctrl)
       THEN /\ x' = UnscaleX(dCol, x)
            /\ y' = UnscaleY(dRow, y)
            /\ z' = UnscaleZ(dCol, z)
            /\ hist' = [hist EXCEPT !.uneq = @ + 1]
       ELSE UNCHANGED <<x, y, z, hist>>
    /\ LET t == IPF(regime, Control, ctrl, FALSE, relError, hist.solve, alpha)
       IN  pc' = t.pc /\ numIts' = t.numIts /\ err' = t.err
    /\ UNCHANGED <<kernelVars, regime, ctrl, lp, relError, dir, alpha, sym, meta>>

Next ==
    \/ Equilibrate
    \/ Initialize
    \/ LoopTest
    \/ Guard
    \/ ConvergenceTest
    \/ BudgetTest
    \/ Direction
    \/ Step
    \/ Unequilibrate

Spec == Init /\ [][Next]_vars

(***************************************************************************)
(* Properties of the iteration loop.                                       *)
(***************************************************************************)
Positive(v) == \A i \in DOMAIN v : RLt(Zero, v[i])

AtStartOfIteration == x = hist.itX /\ y = hist.itY /\ z = hist.itZ

Finished == pc \in {"Done", "Thrown"}

\* the relative error of the iterate IPF holds now
CurrentRelError == RelError(A, b, c, x, y, z)

\* C1: whenever the loop is left without a throw (targetTol <= minTol), the
\* iterate held at that point has relative error <= minTol, also when the loop
\* is left by the counter running past maxIts.
C1_LoopExitMeetsMinTol ==
    (pc = "Unequilibrate" /\ RLeq(ctrl.targetTol, ctrl.minTol))
        => RLeq(CurrentRelError, ctrl.minTol)

\* C2, as claimed: with equilibrate set, every end of the call, normal or by a
\* fatal error, has performed the un-equilibration exactly once.
C2_UnequilibratedOnEveryExit ==
    (ctrl.equilibrate /\ Finished) => hist.uneq = 1

\* C2, amended: with equilibrate set, the un-equilibration is performed exactly
\* once on every normal return and never before the loop is left; a call that
\* ends in a fatal error has not performed it.
C2_UnequilibratedOnNormalReturn ==
    ctrl.equilibrate =>
        /\ pc = "Done" => hist.uneq = 1
        /\ pc # "Done" => hist.uneq = 0

C2_Witness ==
    /\ pc = "Done" /\ ctrl.equilibrate /\ hist.uneq = 1
    /\ hist.exit = "zeroStep" /\ numIts > 0

\* C3: with an invalid ctrl.system the call never returns normally, throws no
\* error but 'Invalid KKT system choice', and throws it before x, y or z is
\* modified.
C3_InvalidSystemRaisedImmediately ==
    ctrl.system \notin ValidSystems =>
        /\ pc # "Done"
        /\ pc = "Thrown" =>
              /\ err = "InvalidSystemLogicError"
              /\ x = hist.inX /\ y = hist.inY /\ z = hist.inZ

\* C4: the 'maximum number of iterations exceeded' error is raised exactly in an
\* iteration with numIts = maxIts whose relError exceeds targetTol and minTol;
\* otherwise (numIts < maxIts, or relError <= minTol) the budget test raises
\* nothing and the iteration goes on to the direction.
C4_BudgetErrorExactlyAtMaxIts ==
    /\ [][pc = "BudgetTest" =>
            IF /\ numIts = ctrl.maxIts
               /\ RLt(ctrl.targetTol, relError)
               /\ RLt(ctrl.minTol, relError)
            THEN pc' = "Thrown" /\ err' = "MaxItsRuntimeError"
            ELSE pc' = "Direction" /\ err' = "None"]_vars
    /\ [](err = "MaxItsRuntimeError" =>
            /\ numIts = ctrl.maxIts
            /\ relError = CurrentRelError
            /\ RLt(ctrl.targetTol, relError)
            /\ RLt(ctrl.minTol, relError))

C4_Witness ==
    /\ pc = "Thrown" /\ err = "MaxItsRuntimeError"
    /\ numIts = ctrl.maxIts /\ numIts > 0

\* C5: an iteration whose guard passes and whose relError <= targetTol leaves the
\* loop as converged in that iteration, before the budget test, with no KKT
\* system built in it and x, y, z as they were at its start.
C5_ConvergedExitsAtOnce ==
    /\ [][(pc = "ConvergenceTest" /\ RLeq(CurrentRelError, ctrl.targetTol)) =>
            /\ pc' = "Unequilibrate"
            /\ hist'.exit = "converged"
            /\ err' = "None"
            /\ x' = hist.itX /\ y' = hist.itY /\ z' = hist.itZ
            /\ dir' = dir
            /\ hist'.kkt = hist.kkt]_vars
    /\ []((pc = "Unequilibrate" /\ hist.exit = "converged") =>
            /\ AtStartOfIteration
            /\ hist.kkt < hist.body
            /\ hist.solve = "none")

C5_Witness ==
    /\ pc = "Unequilibrate" /\ hist.exit = "converged"
    /\ numIts = ctrl.maxIts /\ numIts > 0
    /\ RLt(ctrl.minTol, relError)

\* C6: every iteration starts with the cone guard, before any convergence test
\* of that iteration; a non-positive entry of x or of z makes it throw the
\* LogicError at once with x, y, z untouched, whatever the relative error of
\* the iterate; otherwise it throws nothing.
C6_GuardFirst ==
    /\ [][(pc = "LoopTest" /\ numIts <= ctrl.maxIts) => pc' = "Guard"]_vars
    /\ [][pc = "Guard" =>
            IF \/ \E i \in DOMAIN x : RLeq(x[i], Zero)
               \/ \E i \in DOMAIN z : RLeq(z[i], Zero)
            THEN /\ pc' = "Thrown" /\ err' = "ConeLogicError"
                 /\ UNCHANGED <<x, y, z, relError>>
            ELSE pc' = "ConvergenceTest" /\ err' = "None"]_vars
    /\ [](pc = "Guard" =>
            /\ hist.conv = hist.body - 1
            /\ hist.kkt = hist.body - 1
            /\ AtStartOfIteration)

C6_Witness ==
    /\ pc = "Thrown" /\ err = "ConeLogicError"
    /\ RLeq(CurrentRelError, ctrl.targetTol)

\* C7: when the factorization or solve throws, the loop is left normally if the
\* iteration's relError <= minTol and the RuntimeError is raised otherwise; in
\* both cases x, y, z are as at the start of the iteration.
C7_FailedSolvePolicy ==
    [][(pc = "Direction" /\ hist'.solve = "threw") =>
          /\ ctrl.system \in ValidSystems
          /\ x' = hist.itX /\ y' = hist.itY /\ z' = hist.itZ
          /\ IF RLeq(relError, ctrl.minTol)
             THEN pc' = "Unequilibrate" /\ err' = "None"
             ELSE pc' = "Thrown" /\ err' = "MinTolRuntimeError"]_vars

C7_Witness ==
    /\ pc = "Unequilibrate" /\ hist.exit = "solveFailed"
    /\ regime = "DistSparse" /\ ctrl.system = "NORMAL_KKT"
    /\ numIts > 0 /\ RLt(ctrl.targetTol, relError)

\* C8: a zero step leaves x, y, z as at the start of the iteration and ends it
\* by the policy of a failed solve; a nonzero step adds alpha times the
\* direction to x, y and z with the one alpha, increments the counter and goes
\* back to the loop condition.
C8_ZeroStepPolicy ==
    [][pc = "Step" =>
          IF alpha' = Zero
          THEN /\ x' = hist.itX /\ y' = hist.itY /\ z' = hist.itZ
               /\ numIts' = numIts
               /\ IF RLeq(relError, ctrl.minTol)
                  THEN pc' = "Unequilibrate" /\ err' = "None"
                  ELSE pc' = "Thrown" /\ err' = "MinTolRuntimeError"
          ELSE /\ x' = [i \in DOMAIN x |-> RAdd(hist.itX[i], RMul(alpha', dir.dx[i]))]
               /\ y' = [i \in DOMAIN y |-> RAdd(hist.itY[i], RMul(alpha', dir.dy[i]))]
               /\ z' = [i \in DOMAIN z |-> RAdd(hist.itZ[i], RMul(alpha', dir.dz[i]))]
               /\ numIts' = numIts + 1
               /\ pc' = "LoopTest" /\ err' = "None"]_vars

C8_Witness ==
    /\ pc = "Unequilibrate" /\ hist.exit = "zeroStep"
    /\ numIts > 0 /\ AtStartOfIteration

\* C9: from an iterate with x > 0 and z > 0 a step of length in
\* [0, 0.99 alphaMax], alphaMax the smaller of the two largest steps into the
\* cone, gives x > 0 and z > 0 again; so the guard cannot fire after the first
\* iteration.
C9_IterateStaysInterior ==
    /\ [][(pc = "Step" /\ Positive(x) /\ Positive(z)) =>
            /\ RLeq(Zero, alpha')
            /\ RLeq(alpha', RMul(<<99, 100>>,
                     RMin(MaxStepInPositiveCone(x, dir.dx, One),
                          MaxStepInPositiveCone(z, dir.dz, One))))
            /\ Positive(x') /\ Positive(z')]_vars
    /\ [](err = "ConeLogicError" => numIts = 0)

C9_Witness ==
    /\ pc = "ConvergenceTest" /\ numIts >= 2
    /\ RLt(Zero, alpha) /\ RLt(dir.dx[1], Zero) /\ RLt(dir.dz[1], Zero)

\* an upper bound on the steps the call can still take: six per iteration
\* left, the last loop test and the un-equilibration
StepsLeft ==
    LET loop == 6 * (ctrl.maxIts + 1 - numIts) + 2
    IN  CASE pc = "Equilibrate"     -> 6 * (ctrl.maxIts + 1) + 4
          [] pc = "Initialize"      -> 6 * (ctrl.maxIts + 1) + 3
          [] pc = "LoopTest"        -> loop
          [] pc = "Guard"           -> loop - 1
          [] pc = "ConvergenceTest" -> loop - 2
          [] pc = "BudgetTest"      -> loop - 3
          [] pc = "Direction"       -> loop - 4
          [] pc = "Step"            -> loop - 5
          [] pc = "Unequilibrate"   -> 1
          [] OTHER                  -> 0

\* an unfinished call has a next step: it stands at one of the places of the
\* call, each of whose steps is total once the collaborator it waits for
\* (GeomEquil, Initialize, the line search) has an answer
NextStepExists ==
    CASE pc = "Equilibrate" -> (ctrl.equilibrate => EquilChoices # {})
      [] pc = "Initialize"  -> InitializedIterates # {}
      [] pc = "Step"        -> LineSearchSteps(StepBound(AlphaMax(x, z, dir))) # {}
      [] pc \in {"LoopTest", "Guard", "ConvergenceTest", "BudgetTest",
                 "Direction", "Unequilibrate"} -> TRUE
      [] OTHER              -> FALSE

\* C10: every call ends, by a return or a throw: each step of it lowers a
\* bound that maxIts sets and that cannot fall below zero, and only a finished
\* call has no next step; the loop body is entered, convergence is tested and
\* the iterate is updated at most maxIts+1 times each.
C10_TerminatesWithinBudget ==
    /\ [][StepsLeft' < StepsLeft]_vars
    /\ [](StepsLeft >= 0)
    /\ [](Finished \/ NextStepExists)
    /\ [](/\ hist.body <= ctrl.maxIts + 1
          /\ hist.conv <= ctrl.maxIts + 1
          /\ hist.upd <= ctrl.maxIts + 1)

C10_Witness ==
    /\ pc = "Done" /\ ctrl.maxIts >= 2
    /\ hist.body = ctrl.maxIts + 1 /\ hist.upd = ctrl.maxIts + 1

(***************************************************************************)
(* Properties of the equilibration around the loop.                        *)
(***************************************************************************)
AllSupplied == ctrl.equilibrate /\ ctrl.primalInit /\ ctrl.dualInit

\* C11: with equilibrate, primalInit and dualInit set, a normal return has
\* scaled x, y, z forward once before the loop and backward once after it; the
\* backward scaling is the exact inverse of the forward one (scaling the
\* returned vectors forward again gives the iterate the loop ended with), so a
\* call whose loop applied no step returns exactly the supplied x, y, z.
C11_EquilibrationRoundTrip ==
    /\ [](AllSupplied =>
            /\ pc = "Done" => (hist.equil = 1 /\ hist.uneq = 1)
            /\ (pc = "Done" /\ hist.upd = 0) =>
                  (x = hist.inX /\ y = hist.inY /\ z = hist.inZ))
    /\ [][(pc = "Unequilibrate" /\ AllSupplied) =>
            /\ ScaleSuppliedX(dCol, x') = x
            /\ ScaleSuppliedY(dRow, y') = y
            /\ ScaleSuppliedZ(dCol, z') = z]_vars

C11_Witness ==
    /\ pc = "Done" /\ AllSupplied
    /\ dRow # Ones(Len(dRow)) /\ dCol # Ones(Len(dCol))
    /\ hist.exit = "converged" /\ hist.upd = 0 /\ numIts = 0
    /\ hist.equil = 1 /\ hist.uneq = 1
    /\ x = hist.inX /\ y = hist.inY /\ z = hist.inZ

\* C12, as claimed: the scaling after the loop multiplies x by inv(dCol),
\* multiplies y entrywise by dRow and multiplies z by dCol.
C12_UnscalingMultipliesYByDRow ==
    [][(pc = "Unequilibrate" /\ ctrl.equilibrate) =>
          /\ x' = DiagonalSolve(dCol, x)
          /\ y' = DiagonalScale(dRow, y)
          /\ z' = DiagonalScale(dCol, z)]_vars

\* C12, amended: the scaling after the loop multiplies x by inv(dCol),
\* multiplies y entrywise by inv(dRow) and multiplies z by dCol.
C12_UnscalingDividesYByDRow ==
    [][(pc = "Unequilibrate" /\ ctrl.equilibrate) =>
          /\ x' = DiagonalSolve(dCol, x)
          /\ y' = DiagonalSolve(dRow, y)
          /\ z' = DiagonalScale(dCol, z)]_vars

C12_Witness ==
    /\ pc = "Done" /\ ctrl.equilibrate /\ hist.uneq = 1
    /\ dRow # Ones(Len(dRow)) /\ y # hist.inY /\ y[1] # Zero
    /\ hist.upd > 0

(***************************************************************************)
(* Properties of the four regimes and of the sparse factorization state.   *)
(***************************************************************************)
\* C15: the four overloads implement one iteration state machine: whatever
\* overload runs, the step it takes from a control state (place, counter,
\* error, exit, number of iterate updates) is the step that each of the four
\* overloads takes from that control state with the same ctrl and the same
\* observations (cone test, relError, solve outcome, alpha); so, fed the same
\* observations, all four take the same transitions in the same order, update
\* the iterate the same number of times and end in the same exit.
C15_RegimesRunOneStateMachine ==
    [][\A r \in Regimes :
          Control' = IPF(r, Control, ctrl, OutsideCone(x, z), relError',
                         hist'.solve, alpha')]_vars

\* the distributed sparse overload has updated the iterate, gone round the
\* loop and left it through the handler of a failed solve
C15_Witness ==
    /\ regime = "DistSparse" /\ pc = "Done"
    /\ hist.exit = "solveFailed" /\ hist.upd >= 1 /\ numIts >= 1

\* C16: in the sparse regimes NestedDissection and InvertMap run at most once
\* in a call and only in the iteration with numIts = 0; once a KKT system has
\* been built the symbolic factorization is never written again, so every
\* iteration with numIts >= 1 uses the one that iteration 0 used.
C16_SymbolicStateWriteOnce ==
    /\ [](Sparse(regime) => sym.ndCalls <= 1)
    /\ [][(Sparse(regime) /\ sym'.ndCalls # sym.ndCalls) =>
            (numIts = 0 /\ pc = "Direction")]_vars
    /\ [][(Sparse(regime) /\ (hist.kkt >= 1 \/ numIts >= 1)) =>
            (sym'.mapSrc = sym.mapSrc /\ sym'.ndCalls = sym.ndCalls)]_vars

C16_Witness ==
    /\ Sparse(regime) /\ pc = "Step" /\ numIts = 1 /\ hist.kkt = 2
    /\ sym.ndCalls = 1 /\ sym.mapSrc = "NestedDissection"

\* C17: in the sparse regimes the first iteration runs NestedDissection for
\* FULL_KKT and NORMAL_KKT always and for AUGMENTED_KKT exactly when primalInit
\* and dualInit are both set; AUGMENTED_KKT with a flag unset never runs it and
\* factors with the map and info of Initialize; FULL_KKT and NORMAL_KKT never
\* use what Initialize computed.
C17_InLoopAnalysisBySystem ==
    /\ [][(/\ Sparse(regime) /\ pc = "Direction" /\ numIts = 0
           /\ ctrl.system \in {"FULL_KKT", "AUGMENTED_KKT", "NORMAL_KKT"}) =>
            IF \/ ctrl.system \in {"FULL_KKT", "NORMAL_KKT"}
               \/ ctrl.primalInit /\ ctrl.dualInit
            THEN sym'.ndCalls = sym.ndCalls + 1 /\ sym'.mapSrc = "NestedDissection"
            ELSE sym'.ndCalls = sym.ndCalls /\ sym'.mapSrc = sym.mapSrc]_vars
    /\ []((/\ Sparse(regime) /\ ctrl.system = "AUGMENTED_KKT"
           /\ ~(ctrl.primalInit /\ ctrl.dualInit)) =>
            /\ sym.ndCalls = 0
            /\ hist.solve # "none" => sym.mapSrc = "Initialize")
    /\ []((Sparse(regime) /\ ctrl.system \in {"FULL_KKT", "NORMAL_KKT"}) =>
            /\ sym.mapSrc # "Initialize"
            /\ hist.solve # "none" => sym.mapSrc = "NestedDissection")

C17_Witness ==
    /\ Sparse(regime) /\ ctrl.system = "AUGMENTED_KKT"
    /\ ctrl.primalInit /\ ~ctrl.dualInit
    /\ numIts = 1 /\ hist.solve = "ok"
    /\ sym.ndCalls = 0 /\ sym.mapSrc = "Initialize"

\* C18: in the distributed sparse regime, for every KKT system, the multMeta
\* of the unregularized matrix JOrig and that of the regularized and
\* equilibrated matrix J are each computed by InitializeMultMeta once, at
\* numIts = 0, and the cached value is assigned in every later iteration.
C18_BothMetaCachedForEverySystem ==
    (regime = "DistSparse" /\ hist.kkt >= 1) =>
        /\ meta.origInits = 1 /\ meta.jInits = 1
        /\ meta.origReuses = hist.kkt - 1 /\ meta.jReuses = hist.kkt - 1

\* C19: in both sparse regimes, for each of the three KKT systems, the matrix
\* handed to LDL has first been equilibrated by SymmetricGeomEquil and then
\* been given the diagonal reg, with reg[i] = +regPrimal for the first n
\* indices and -regDual for the others.
C19_FactoredMatrixEquilibratedThenRegularized ==
    (Sparse(regime) /\ hist.solve # "none") =>
        /\ \E i, j \in DOMAIN hist.prep :
              /\ i < j
              /\ hist.prep[i] = "SymmetricGeomEquil"
              /\ hist.prep[j] = "UpdateRealPartOfDiagonal"
        /\ sym.reg # Empty
        /\ \A i \in DOMAIN sym.reg :
              sym.reg[i] = IF i <= Len(A[1]) THEN "regPrimal" ELSE "-regDual"

(***************************************************************************)
(* SafeScale: the arithmetic of Real.  A Real is zero, a signed power of   *)
(* two s * 2^e (FloatE and SubBits fix the normal and the subnormal        *)
(* exponents), an infinity or a NaN.  X-operators compute without          *)
(* rounding; F-operators round their result into the format.               *)
(***************************************************************************)
FloatE == 3

SubBits == 1

MaxScaleSteps == 6

MaxExp == FloatE + 1

MinNormExp == 0 - FloatE

MinSubExp == MinNormExp - SubBits

Fin(sg, ex) == [k |-> "fin", s |-> sg, e |-> ex]

FZero == [k |-> "zero", s |-> 1, e |-> 0]

FOne == Fin(1, 0)

FInf(sg) == [k |-> "inf", s |-> sg, e |-> 0]

FNaN == [k |-> "nan", s |-> 1, e |-> 0]

XMul(p, q) ==
    IF p.k = "nan" \/ q.k = "nan" THEN FNaN
    ELSE IF (p.k = "zero" /\ q.k = "inf") \/ (p.k = "inf" /\ q.k = "zero") THEN FNaN
    ELSE IF p.k = "zero" \/ q.k = "zero" THEN FZero
    ELSE IF p.k = "inf" \/ q.k = "inf" THEN FInf(p.s * q.s)
    ELSE Fin(p.s * q.s, p.e + q.e)

XDiv(p, q) ==
    IF p.k = "nan" \/ q.k = "nan" THEN FNaN
    ELSE IF (p.k = "zero" /\ q.k = "zero") \/ (p.k = "inf" /\ q.k = "inf") THEN FNaN
    ELSE IF p.k = "zero" \/ q.k = "inf" THEN FZero
    ELSE IF p.k = "inf" \/ q.k = "zero" THEN FInf(p.s * q.s)
    ELSE Fin(p.s * q.s, p.e - q.e)

\* overflow gives an infinity, underflow below the subnormals gives zero
Round(p) ==
    IF p.k # "fin" THEN p
    ELSE IF p.e > MaxExp THEN FInf(p.s)
    ELSE IF p.e < MinSubExp THEN FZero
    ELSE p

FMul(p, q) == Round(XMul(p, q))

FDiv(p, q) == Round(XDiv(p, q))

\* Abs(p) > Abs(q); a comparison with a NaN is false
AbsGt(p, q) ==
    /\ p.k # "nan" /\ q.k # "nan"
    /\ p.k # "zero"
    /\ q.k # "inf"
    /\ \/ q.k = "zero"
       \/ p.k = "inf"
       \/ p.e > q.e

Reals ==
    {FZero, FNaN} \cup {FInf(sg) : sg \in {-1, 1}}
        \cup {Fin(sg, ex) : sg \in {-1, 1}, ex \in MinSubExp..MaxExp}

(***************************************************************************)
(* SafeScaleStep and the loop of SafeScale.                                *)
(***************************************************************************)
\* const Real smallNum = limits::SafeMin<Real>(): the smallest normal number
\* whose reciprocal does not overflow
SmallNum == Fin(1, MinNormExp)

\* const Real bigNum = Real(1) / smallNum
BigNum == FDiv(FOne, SmallNum)

\* a shrinking of the denominator that divides it by smallNum
ShrunkDenominator_Divided(d, smallNum) == FDiv(d, smallNum)

\* Real shrunkDenominator = denominator * smallNum
ShrunkDenominator(d, smallNum) == FMul(d, smallNum)

\* a shrinking of the numerator that grows it
ShrunkNumerator_Grown(n, bigNum) == FMul(n, bigNum)

\* Real shrunkNumerator = numerator / bigNum
ShrunkNumerator(n, bigNum) == FDiv(n, bigNum)

\* a SafeScaleStep whose first test lacks && numerator != zero
SafeScaleStep_NoZeroTest(n, d, zero, smallNum, bigNum) ==
    LET shrunkDenominator == FMul(d, smallNum)
        shrunkNumerator   == FDiv(n, bigNum)
    IN  IF AbsGt(shrunkDenominator, n)
        THEN [numerator |-> n, denominator |-> shrunkDenominator,
              alpha |-> smallNum, done |-> FALSE]
        ELSE IF AbsGt(shrunkNumerator, d)
        THEN [numerator |-> shrunkNumerator, denominator |-> d,
              alpha |-> bigNum, done |-> FALSE]
        ELSE [numerator |-> n, denominator |-> d,
              alpha |-> FDiv(n, d), done |-> TRUE]

\* SafeScaleStep( numerator, denominator, alpha, zero, smallNum, bigNum ):
\* the values it leaves in its reference arguments and its return value
SafeScaleStep(n, d, zero, smallNum, bigNum) ==
    LET shrunkDenominator == ShrunkDenominator(d, smallNum)
        shrunkNumerator   == ShrunkNumerator(n, bigNum)
    IN  IF AbsGt(shrunkDenominator, n) /\ n # zero
        THEN [numerator |-> n, denominator |-> shrunkDenominator,
              alpha |-> smallNum, done |-> FALSE]
        ELSE IF AbsGt(shrunkNumerator, d)
        THEN [numerator |-> shrunkNumerator, denominator |-> d,
              alpha |-> bigNum, done |-> FALSE]
        ELSE [numerator |-> n, denominator |-> d,
              alpha |-> FDiv(n, d), done |-> TRUE]

\* no call of IPF is in progress
IPFIdle ==
    /\ regime = "SeqDense"
    /\ ctrl = [equilibrate |-> FALSE, primalInit |-> FALSE, dualInit |-> FALSE,
               system |-> "FULL_KKT", maxIts |-> 0,
               targetTol |-> Zero, minTol |-> Zero]
    /\ A = Empty /\ b = Empty /\ c = Empty
    /\ dRow = Empty /\ dCol = Empty
    /\ x = Empty /\ y = Empty /\ z = Empty
    /\ numIts = 0
    /\ relError = One
    /\ dir = NoDir
    /\ alpha = Zero
    /\ sym = [mapSrc |-> "unset", ndCalls |-> 0, reg |-> Empty]
    /\ meta = [origInits |-> 0, jInits |-> 0, origReuses |-> 0, jReuses |-> 0]
    /\ pc = "Idle"
    /\ err = "None"
    /\ hist = [inX |-> Empty, inY |-> Empty, inZ |-> Empty,
               itX |-> Empty, itY |-> Empty, itZ |-> Empty,
               equil |-> 0, body |-> 0, conv |-> 0, kkt |-> 0, upd |-> 0,
               uneq |-> 0, prep |-> Empty, solve |-> "none", exit |-> "none"]

\* the entries of A that are scaled
Targets == {FOne, Fin(-1, MaxExp)}

\* SafeScale( numerator, denominator, A ) is entered; alpha is not initialized
ScaleInit ==
    /\ IPFIdle
    /\ DotuIdle
    /\ MshsIdle
    /\ numerator \in Reals
    /\ denominator \in Reals
    /\ scaleAlpha \in {FZero, FNaN}
    /\ done = FALSE
    /\ \/ /\ target \in Targets
          /\ tridiag = NoTridiag
       \/ /\ target = FZero
          /\ \E dd \in Targets, ee \in Targets :
                tridiag = [NoTridiag EXCEPT !.on = TRUE, !.d = dd, !.e = ee]
    /\ scaleHist = [numerator |-> numerator, denominator |-> denominator,
                    target |-> target, steps |-> 0, applied |-> FOne]

\* one pass of while( !done ): SafeScaleStep, then A *= alpha; the loop has no
\* other exit than done, and a call that never gets a true from SafeScaleStep
\* (an infinite numerator or denominator) goes on passing.  scaleHist keeps
\* the number of the passes and the exact product of their alphas for the
\* first MaxScaleSteps passes of a call
ScaleLoop ==
    /\ ~tridiag.on
    /\ ~done
    /\ LET r == SafeScaleStep(numerator, denominator, FZero, SmallNum, BigNum)
       IN  /\ numerator' = r.numerator
           /\ denominator' = r.denominator
           /\ scaleAlpha' = r.alpha
           /\ done' = r.done
           /\ target' = FMul(target, r.alpha)
           /\ scaleHist' = IF scaleHist.steps < MaxScaleSteps
                           THEN [scaleHist EXCEPT !.steps = @ + 1,
                                                  !.applied = XMul(@, r.alpha)]
                           ELSE scaleHist
    /\ UNCHANGED <<tridiag, ipfVars, dotVars, mshsCall, mshs>>

\* a pass that scales the diagonal and leaves the off-diagonal alone
TridiagonalPass_DiagonalOnly(t, a, rec) ==
    IF rec
    THEN [t EXCEPT !.d = FMul(@, a), !.dApplied = XMul(@, a), !.dScalings = @ + 1]
    ELSE [t EXCEPT !.d = FMul(@, a)]

\* d *= alpha; e *= alpha; rec tells whether the pass is one of those the
\* history keeps
TridiagonalPass(t, a, rec) ==
    IF rec
    THEN [t EXCEPT !.d = FMul(@, a), !.dApplied = XMul(@, a), !.dScalings = @ + 1,
                   !.e = FMul(@, a), !.eApplied = XMul(@, a), !.eScalings = @ + 1]
    ELSE [t EXCEPT !.d = FMul(@, a), !.e = FMul(@, a)]

\* one pass of the loop of SafeScaleHermitianTridiagonal: SafeScaleStep, then
\* d *= alpha and e *= alpha; as in SafeScale the loop ends with done only
ScaleTridiagonalLoop ==
    /\ tridiag.on
    /\ ~done
    /\ LET r == SafeScaleStep(numerator, denominator, FZero, SmallNum, BigNum)
       IN  /\ numerator' = r.numerator
           /\ denominator' = r.denominator
           /\ scaleAlpha' = r.alpha
           /\ done' = r.done
           /\ tridiag' = TridiagonalPass(tridiag, r.alpha,
                                         scaleHist.steps < MaxScaleSteps)
           /\ scaleHist' = IF scaleHist.steps < MaxScaleSteps
                           THEN [scaleHist EXCEPT !.steps = @ + 1,
                                                  !.applied = XMul(@, r.alpha)]
                           ELSE scaleHist
    /\ UNCHANGED <<target, ipfVars, dotVars, mshsCall, mshs>>

ScaleNext == ScaleLoop \/ ScaleTridiagonalLoop

SpecSafeScale == ScaleInit /\ [][ScaleNext]_vars

(***************************************************************************)
(* Properties of SafeScale.                                                *)
(***************************************************************************)
\* the ratio SafeScale was called with, as a real number
OriginalRatio == XDiv(scaleHist.numerator, scaleHist.denominator)

\* C13: inside the loop the product of the alphas applied so far times the
\* current numerator/denominator equals the numerator/denominator of the call,
\* and when the loop has ended the alphas applied multiply to that ratio
\* (calls whose ratio is not a number, 0/0, inf/inf or a NaN argument, aside).
C13_AppliedTimesRestIsRatio ==
    OriginalRatio.k # "nan" =>
        IF done
        THEN scaleHist.applied = OriginalRatio
        ELSE XMul(scaleHist.applied, XDiv(numerator, denominator)) = OriginalRatio

C13_Witness ==
    /\ done /\ scaleHist.steps = 3
    /\ OriginalRatio.k = "fin" /\ OriginalRatio.e > 2 * FloatE
    /\ scaleHist.applied = OriginalRatio

\* how far the exponent of |numerator|/|denominator| lies outside the exponents
\* of [smallNum, bigNum]; a zero or infinite ratio is farther than any finite one
RatioDistance ==
    LET r == XDiv(numerator, denominator)
    IN  IF r.k # "fin" THEN 4 * (MaxExp - MinSubExp)
        ELSE IF r.e < SmallNum.e THEN SmallNum.e - r.e
        ELSE IF r.e > BigNum.e THEN r.e - BigNum.e
        ELSE 0

\* the call's numerator is a number of the representable range and its
\* denominator a nonzero number of the representable range: neither is an
\* infinity or a NaN
InRepresentableRange ==
    /\ scaleHist.numerator.k \in {"fin", "zero"}
    /\ scaleHist.denominator.k = "fin"

\* C14: for every numerator and every nonzero denominator of the representable
\* range, the loop of SafeScale reaches a step where SafeScaleStep returns true
\* after at most 4 step applications: no more than 4 are ever applied, while
\* the loop runs fewer than 4 have been, and the step that is then taken either
\* is the final one or strictly reduces the distance of
\* |numerator|/|denominator| from [smallNum, bigNum].
C14_DoneWithinFourSteps ==
    /\ [](InRepresentableRange => scaleHist.steps <= 4)
    /\ [](InRepresentableRange /\ ~done => scaleHist.steps < 4)
    /\ [][InRepresentableRange /\ ~done' => RatioDistance' < RatioDistance]_vars

\* a call whose ratio lay below smallNum by more than one factor of smallNum
\* has ended with its third step, the ratio by then inside [smallNum, bigNum]
C14_Witness ==
    /\ InRepresentableRange
    /\ done /\ scaleHist.steps = 3
    /\ OriginalRatio.k = "fin" /\ OriginalRatio.e < 2 * SmallNum.e
    /\ RatioDistance = 0

\* the test of outcome (1): |denominator*smallNum| > |numerator| and
\* numerator != 0
ShrinksDenominator(n, d) == AbsGt(FMul(d, SmallNum), n) /\ n # FZero

\* the test of outcome (2): |numerator/bigNum| > |denominator|
ShrinksNumerator(n, d) == AbsGt(FDiv(n, BigNum), d)

\* C26: every step of the loop selects one of three outcomes, in this order:
\* (1) if |denominator*smallNum| > |numerator| and numerator != 0, alpha is
\* smallNum, the denominator becomes denominator*smallNum, the numerator stays
\* and the step returns false; (2) else if |numerator/bigNum| > |denominator|,
\* alpha is bigNum, the numerator becomes numerator/bigNum, the denominator
\* stays and the step returns false; (3) else alpha is numerator/denominator,
\* both stay and the step returns true.  The tests of (1) and (2) never hold
\* together.
C26_StepSelectsOneOfThreeOutcomes ==
    /\ [](~(ShrinksDenominator(numerator, denominator)
              /\ ShrinksNumerator(numerator, denominator)))
    /\ [][IF ShrinksDenominator(numerator, denominator)
          THEN /\ scaleAlpha' = SmallNum
               /\ denominator' = FMul(denominator, SmallNum)
               /\ numerator' = numerator
               /\ ~done'
          ELSE IF ShrinksNumerator(numerator, denominator)
          THEN /\ scaleAlpha' = BigNum
               /\ numerator' = FDiv(numerator, BigNum)
               /\ denominator' = denominator
               /\ ~done'
          ELSE /\ scaleAlpha' = FDiv(numerator, denominator)
               /\ numerator' = numerator
               /\ denominator' = denominator
               /\ done']_vars

\* outcome (1), then outcome (2) is not selected and (3) ends the loop
C26_Witness ==
    /\ done /\ scaleHist.steps = 2
    /\ numerator = scaleHist.numerator
    /\ denominator = FMul(scaleHist.denominator, SmallNum)
    /\ denominator # scaleHist.denominator
    /\ scaleAlpha = FDiv(numerator, denominator)
    /\ scaleAlpha.k = "fin"

\* SafeScale was called with numerator == 0 and a denominator that is a
\* nonzero number
ZeroOverNonzero ==
    /\ scaleHist.numerator = FZero
    /\ scaleHist.denominator.k \in {"fin", "inf"}

\* C29: with numerator == 0 and a nonzero denominator the loop makes exactly
\* one step: the first SafeScaleStep returns true with alpha = 0, numerator
\* and denominator keep their values, and the target is scaled once, by 0.
C29_ZeroNumeratorTakesOneStep ==
    ZeroOverNonzero =>
        /\ scaleHist.steps <= 1
        /\ done <=> scaleHist.steps = 1
        /\ scaleHist.steps = 1 =>
              /\ scaleAlpha = FZero
              /\ numerator = FZero
              /\ denominator = scaleHist.denominator
              /\ target = FMul(scaleHist.target, FZero)

C29_Witness ==
    /\ ZeroOverNonzero
    /\ scaleHist.denominator = Fin(-1, MaxExp)
    /\ done /\ scaleHist.steps = 1
    /\ scaleAlpha = FZero /\ target = FZero

\* C25: SafeScaleHermitianTridiagonal applies the factor of every step to
\* both arrays: after each pass of the loop the diagonal d and the
\* off-diagonal e have been multiplied by the same product of alphas, the
\* product of all steps so far, and each has been scaled once per step, the
\* final step included.
C25_BothArraysScaledTogether ==
    tridiag.on =>
        /\ tridiag.dApplied = tridiag.eApplied
        /\ tridiag.dApplied = scaleHist.applied
        /\ tridiag.dScalings = scaleHist.steps
        /\ tridiag.eScalings = scaleHist.steps

C25_Witness ==
    /\ tridiag.on /\ done
    /\ scaleHist.steps = 3
    /\ tridiag.dScalings = 3 /\ tridiag.eScalings = 3
    /\ tridiag.eApplied = scaleHist.applied
    /\ scaleHist.applied.k = "fin" /\ scaleHist.applied.e < 0 - 2 * FloatE
    /\ tridiag.d # tridiag.e

(***************************************************************************)
(* Dotu: the process grid, the distributions and the local parts.          *)
(***************************************************************************)
VecLen == 3

Procs(call) == (0..(call.height - 1)) \X (0..(call.width - 1))

\* grid.MCRank(): the row of the grid a process stands in
MCRank(p) == p[1]

\* grid.MRRank(): the column of the grid a process stands in
MRRank(p) == p[2]

\* the rank of a process in a communicator of the grid, grid.MCRank() in
\* grid.MCComm() and so on: MCComm joins a column of the grid and MRComm a
\* row; VCComm and VRComm are the whole grid, ordered column by column and
\* row by row
RankIn(comm, p, call) ==
    CASE comm \in {"MCComm", "MCRank"} -> MCRank(p)
      [] comm \in {"MRComm", "MRRank"} -> MRRank(p)
      [] comm \in {"VCComm", "VCRank"} -> MCRank(p) + call.height * MRRank(p)
      [] comm \in {"VRComm", "VRRank"} -> MRRank(p) + call.width * MCRank(p)

\* the number of processes of a communicator
SizeOf(comm, g) ==
    CASE comm = "MCComm" -> g[1]
      [] comm = "MRComm" -> g[2]
      [] comm \in {"VCComm", "VRComm"} -> g[1] * g[2]
      [] comm = "None" -> 1

\* the communicators the rows and the columns of a distribution are dealt
\* over; a Star dimension is stored by every process
DealtOver(dist) ==
    CASE dist = "MC_MR" -> <<"MCComm", "MRComm">>
      [] dist = "MR_MC" -> <<"MRComm", "MCComm">>
      [] dist = "MC_STAR" -> <<"MCComm", "None">>
      [] dist = "STAR_MC" -> <<"None", "MCComm">>
      [] dist = "MR_STAR" -> <<"MRComm", "None">>
      [] dist = "STAR_MR" -> <<"None", "MRComm">>
      [] dist = "VC_STAR" -> <<"VCComm", "None">>
      [] dist = "STAR_VC" -> <<"None", "VCComm">>
      [] dist = "VR_STAR" -> <<"VRComm", "None">>
      [] dist = "STAR_VR" -> <<"None", "VRComm">>
      [] dist = "STAR_STAR" -> <<"None", "None">>

\* xRedist.AlignWith( y ): xRedist has the distribution of y or the
\* transposed one, and each of its dimensions takes the alignment of the
\* dimension of y that is dealt over the same communicator
AlignWith(xDist, call) ==
    IF xDist = call.yDist
    THEN [colAlign |-> call.colAlign, rowAlign |-> call.rowAlign]
    ELSE [colAlign |-> call.rowAlign, rowAlign |-> call.colAlign]

\* process p stores entry (i, j) of a matrix distributed as dist: row i is
\* dealt to the rank (colAlign + i) mod the size of the communicator of the
\* rows, column j to the rank (rowAlign + j) mod that of the columns
StoredBy(dist, al, i, j, p, call) ==
    LET over == DealtOver(dist)
        g    == <<call.height, call.width>>
    IN  /\ over[1] # "None" =>
              RankIn(over[1], p, call) = (al.colAlign + i) % SizeOf(over[1], g)
        /\ over[2] # "None" =>
              RankIn(over[2], p, call) = (al.rowAlign + j) % SizeOf(over[2], g)

\* the indices, from 0, of the entries of a vector that process p stores
LocalIndices(dist, al, isCol, len, p, call) ==
    {k \in 0..(len - 1) :
        StoredBy(dist, al, IF isCol THEN k ELSE 0, IF isCol THEN 0 ELSE k, p, call)}

\* LockedLocalMatrix(): the stored entries in the order of their indices
LocalMatrix(v, S) ==
    [i \in 1..Cardinality(S) |->
        v[(CHOOSE k \in S : Cardinality({j \in S : j < k}) = i - 1) + 1]]

RECURSIVE LocalDotuUpTo(_, _, _)
LocalDotuUpTo(u, w, n) ==
    IF n = 0 THEN 0 ELSE LocalDotuUpTo(u, w, n - 1) + u[n] * w[n]

\* blas::Dotu of two local matrices
LocalDotu(u, w) ==
    LocalDotuUpTo(u, w, IF Len(u) < Len(w) THEN Len(u) ELSE Len(w))

(***************************************************************************)
(* Dotu( x, y ): one overload for each distribution of y.                  *)
(***************************************************************************)
\* the chain if( x.Width() == 1 && y.Width() == 1 ) ... else; a column vector
\* has width 1 and a row vector has its length as width, so that a vector
\* of length 1 has width 1 either way
ShapeCase(call) ==
    LET xWidth == IF call.xIsCol THEN 1 ELSE Len(call.xv)
        yWidth == IF call.yIsCol THEN 1 ELSE Len(call.yv)
    IN  IF xWidth = 1 /\ yWidth = 1 THEN 1
        ELSE IF xWidth = 1 THEN 2
        ELSE IF yWidth = 1 THEN 3
        ELSE 4

\* what each overload does in each of its four cases: the distribution of
\* xRedist, the alignment of y that names the owner, the rank compared with
\* it, the communicator of the AllReduce and that of the Broadcast.  The
\* overloads for [MC,MR] and [MR,MC] have an owner test, an AllReduce among
\* the owners and a Broadcast; a case of the overloads with a Star dimension
\* has either an AllReduce that every process enters, or an owner that
\* computes globalDotu itself and a Broadcast; the overload for [* ,* ] has no
\* collective after the redistribution
DotuPlan(yDist, shapeCase) ==
    CASE yDist = "MC_MR" /\ shapeCase = 1 ->
                [xRedist |-> "MC_MR", owner |-> "RowAlignment", rank |-> "MRRank",
                 reduce |-> "MCComm", bcast |-> "MRComm"]
      [] yDist = "MC_MR" /\ shapeCase = 2 ->
                [xRedist |-> "MR_MC", owner |-> "ColAlignment", rank |-> "MCRank",
                 reduce |-> "MRComm", bcast |-> "MCComm"]
      [] yDist = "MC_MR" /\ shapeCase = 3 ->
                [xRedist |-> "MR_MC", owner |-> "RowAlignment", rank |-> "MRRank",
                 reduce |-> "MCComm", bcast |-> "MRComm"]
      [] yDist = "MC_MR" /\ shapeCase = 4 ->
                [xRedist |-> "MC_MR", owner |-> "ColAlignment", rank |-> "MCRank",
                 reduce |-> "MRComm", bcast |-> "MCComm"]
      [] yDist = "MC_STAR" /\ shapeCase = 1 ->
                [xRedist |-> "MC_STAR", owner |-> "Every", rank |-> "MCRank",
                 reduce |-> "MCComm", bcast |-> "None"]
      [] yDist = "MC_STAR" /\ shapeCase = 2 ->
                [xRedist |-> "STAR_MC", owner |-> "ColAlignment", rank |-> "MCRank",
                 reduce |-> "None", bcast |-> "MCComm"]
      [] yDist = "MC_STAR" /\ shapeCase = 3 ->
                [xRedist |-> "STAR_MC", owner |-> "Every", rank |-> "MCRank",
                 reduce |-> "MCComm", bcast |-> "None"]
      [] yDist = "MC_STAR" /\ shapeCase = 4 ->
                [xRedist |-> "MC_STAR", owner |-> "ColAlignment", rank |-> "MCRank",
                 reduce |-> "None", bcast |-> "MCComm"]
      [] yDist = "STAR_MR" /\ shapeCase = 1 ->
                [xRedist |-> "STAR_MR", owner |-> "RowAlignment", rank |-> "MRRank",
                 reduce |-> "None", bcast |-> "MRComm"]
      [] yDist = "STAR_MR" /\ shapeCase = 2 ->
                [xRedist |-> "MR_STAR", owner |-> "Every", rank |-> "MRRank",
                 reduce |-> "MRComm", bcast |-> "None"]
      [] yDist = "STAR_MR" /\ shapeCase = 3 ->
                [xRedist |-> "MR_STAR", owner |-> "RowAlignment", rank |-> "MRRank",
                 reduce |-> "None", bcast |-> "MRComm"]
      [] yDist = "STAR_MR" /\ shapeCase = 4 ->
                [xRedist |-> "STAR_MR", owner |-> "Every", rank |-> "MRRank",
                 reduce |-> "MRComm", bcast |-> "None"]
      [] yDist = "MR_MC" /\ shapeCase = 1 ->
                [xRedist |-> "MR_MC", owner |-> "RowAlignment", rank |-> "MCRank",
                 reduce |-> "MRComm", bcast |-> "MCComm"]
      [] yDist = "MR_MC" /\ shapeCase = 2 ->
                [xRedist |-> "MC_MR", owner |-> "ColAlignment", rank |-> "MRRank",
                 reduce |-> "MCComm", bcast |-> "MRComm"]
      [] yDist = "MR_MC" /\ shapeCase = 3 ->
                [xRedist |-> "MC_MR", owner |-> "RowAlignment", rank |-> "MCRank",
                 reduce |-> "MRComm", bcast |-> "MCComm"]
      [] yDist = "MR_MC" /\ shapeCase = 4 ->
                [xRedist |-> "MR_MC", owner |-> "ColAlignment", rank |-> "MRRank",
                 reduce |-> "MCComm", bcast |-> "MRComm"]
      [] yDist = "MR_STAR" /\ shapeCase = 1 ->
                [xRedist |-> "MR_STAR", owner |-> "Every", rank |-> "MRRank",
                 reduce |-> "MRComm", bcast |-> "None"]
      [] yDist = "MR_STAR" /\ shapeCase = 2 ->
                [xRedist |-> "STAR_MR", owner |-> "ColAlignment", rank |-> "MRRank",
                 reduce |-> "None", bcast |-> "MRComm"]
      [] yDist = "MR_STAR" /\ shapeCase = 3 ->
                [xRedist |-> "STAR_MR", owner |-> "Every", rank |-> "MRRank",
                 reduce |-> "MRComm", bcast |-> "None"]
      [] yDist = "MR_STAR" /\ shapeCase = 4 ->
                [xRedist |-> "MR_STAR", owner |-> "ColAlignment", rank |-> "MRRank",
                 reduce |-> "None", bcast |-> "MRComm"]
      [] yDist = "STAR_MC" /\ shapeCase = 1 ->
                [xRedist |-> "STAR_MC", owner |-> "RowAlignment", rank |-> "MCRank",
                 reduce |-> "None", bcast |-> "MCComm"]
      [] yDist = "STAR_MC" /\ shapeCase = 2 ->
                [xRedist |-> "MC_STAR", owner |-> "Every", rank |-> "MCRank",
                 reduce |-> "MCComm", bcast |-> "None"]
      [] yDist = "STAR_MC" /\ shapeCase = 3 ->
                [xRedist |-> "MC_STAR", owner |-> "RowAlignment", rank |-> "MCRank",
                 reduce |-> "None", bcast |-> "MCComm"]
      [] yDist = "STAR_MC" /\ shapeCase = 4 ->
                [xRedist |-> "STAR_MC", owner |-> "Every", rank |-> "MCRank",
                 reduce |-> "MCComm", bcast |-> "None"]
      [] yDist = "VC_STAR" /\ shapeCase = 1 ->
                [xRedist |-> "VC_STAR", owner |-> "Every", rank |-> "VCRank",
                 reduce |-> "VCComm", bcast |-> "None"]
      [] yDist = "VC_STAR" /\ shapeCase = 2 ->
                [xRedist |-> "STAR_VC", owner |-> "ColAlignment", rank |-> "VCRank",
                 reduce |-> "None", bcast |-> "VCComm"]
      [] yDist = "VC_STAR" /\ shapeCase = 3 ->
                [xRedist |-> "STAR_VC", owner |-> "Every", rank |-> "VCRank",
                 reduce |-> "VCComm", bcast |-> "None"]
      [] yDist = "VC_STAR" /\ shapeCase = 4 ->
                [xRedist |-> "VC_STAR", owner |-> "ColAlignment", rank |-> "VCRank",
                 reduce |-> "None", bcast |-> "VCComm"]
      [] yDist = "STAR_VC" /\ shapeCase = 1 ->
                [xRedist |-> "STAR_VC", owner |-> "RowAlignment", rank |-> "VCRank",
                 reduce |-> "None", bcast |-> "VCComm"]
      [] yDist = "STAR_VC" /\ shapeCase = 2 ->
                [xRedist |-> "VC_STAR", owner |-> "Every", rank |-> "VCRank",
                 reduce |-> "VCComm", bcast |-> "None"]
      [] yDist = "STAR_VC" /\ shapeCase = 3 ->
                [xRedist |-> "VC_STAR", owner |-> "RowAlignment", rank |-> "VCRank",
                 reduce |-> "None", bcast |-> "VCComm"]
      [] yDist = "STAR_VC" /\ shapeCase = 4 ->
                [xRedist |-> "STAR_VC", owner |-> "Every", rank |-> "VCRank",
                 reduce |-> "VCComm", bcast |-> "None"]
      [] yDist = "VR_STAR" /\ shapeCase = 1 ->
                [xRedist |-> "VR_STAR", owner |-> "Every", rank |-> "VRRank",
                 reduce |-> "VRComm", bcast |-> "None"]
      [] yDist = "VR_STAR" /\ shapeCase = 2 ->
                [xRedist |-> "STAR_VR", owner |-> "ColAlignment", rank |-> "VRRank",
                 reduce |-> "None", bcast |-> "VRComm"]
      [] yDist = "VR_STAR" /\ shapeCase = 3 ->
                [xRedist |-> "STAR_VR", owner |-> "Every", rank |-> "VRRank",
                 reduce |-> "VRComm", bcast |-> "None"]
      [] yDist = "VR_STAR" /\ shapeCase = 4 ->
                [xRedist |-> "VR_STAR", owner |-> "ColAlignment", rank |-> "VRRank",
                 reduce |-> "None", bcast |-> "VRComm"]
      [] yDist = "STAR_VR" /\ shapeCase = 1 ->
                [xRedist |-> "STAR_VR", owner |-> "RowAlignment", rank |-> "VRRank",
                 reduce |-> "None", bcast |-> "VRComm"]
      [] yDist = "STAR_VR" /\ shapeCase = 2 ->
                [xRedist |-> "VR_STAR", owner |-> "Every", rank |-> "VRRank",
                 reduce |-> "VRComm", bcast |-> "None"]
      [] yDist = "STAR_VR" /\ shapeCase = 3 ->
                [xRedist |-> "VR_STAR", owner |-> "RowAlignment", rank |-> "VRRank",
                 reduce |-> "None", bcast |-> "VRComm"]
      [] yDist = "STAR_VR" /\ shapeCase = 4 ->
                [xRedist |-> "STAR_VR", owner |-> "Every", rank |-> "VRRank",
                 reduce |-> "VRComm", bcast |-> "None"]
      [] yDist = "STAR_STAR" ->
                [xRedist |-> "STAR_STAR", owner |-> "Every", rank |-> "None",
                 reduce |-> "None", bcast |-> "None"]

\* a Dotu whose second [MR,MC] case broadcasts from the row alignment
PlanOf_WrongRoot(call) ==
    IF call.yDist = "MR_MC" /\ ShapeCase(call) = 2
    THEN [DotuPlan(call.yDist, 2) EXCEPT !.owner = "RowAlignment"]
    ELSE DotuPlan(call.yDist, ShapeCase(call))

\* a Dotu whose first [MC,MR] case reduces over the communicator it goes on to
\* broadcast over
PlanOf_ReduceAcrossOwners(call) ==
    IF call.yDist = "MC_MR" /\ ShapeCase(call) = 1
    THEN [DotuPlan(call.yDist, 1) EXCEPT !.reduce = "MRComm"]
    ELSE DotuPlan(call.yDist, ShapeCase(call))

\* the case taken by a call
PlanOf(call) == DotuPlan(call.yDist, ShapeCase(call))

\* int ownerCol = y.RowAlignment(); if( grid.MRRank() == ownerCol ),
\* int ownerRow = y.ColAlignment(); if( grid.MCRank() == ownerRow ), ...; the
\* cases that go to the AllReduce without a test and the [* ,* ] overload
\* have every process compute
IsOwner(p, call) ==
    \/ PlanOf(call).owner = "Every"
    \/ RankIn(PlanOf(call).rank, p, call)
          = IF PlanOf(call).owner = "RowAlignment" THEN call.rowAlign
            ELSE call.colAlign

\* the processes of p's communicator
Members(comm, p, call) ==
    {q \in Procs(call) :
        CASE comm = "MCComm" -> MRRank(q) = MRRank(p)
          [] comm = "MRComm" -> MCRank(q) = MCRank(p)
          [] comm \in {"VCComm", "VRComm"} -> TRUE
          [] comm = "None" -> q = p}

\* the root of the Broadcast p takes part in, if the communicator has that
\* rank: Broadcast( &globalDotu, 1, ownerCol, grid.MRComm() ), ...
BcastRoots(p, call) ==
    IF PlanOf(call).bcast = "None" THEN {}
    ELSE {q \in Members(PlanOf(call).bcast, p, call) :
             RankIn(PlanOf(call).bcast, q, call)
                = IF PlanOf(call).owner = "RowAlignment" THEN call.rowAlign
                  ELSE call.colAlign}

\* blas::Dotu( xRedist.LockedLocalMatrix(), y.LockedLocalMatrix() ) on p
LocalDotuOf(p, call) ==
    LET xDist == PlanOf(call).xRedist
    IN  LocalDotu(
            LocalMatrix(call.xv, LocalIndices(xDist, AlignWith(xDist, call),
                                              call.xIsCol, Len(call.xv), p, call)),
            LocalMatrix(call.yv, LocalIndices(call.yDist,
                                              [colAlign |-> call.colAlign,
                                               rowAlign |-> call.rowAlign],
                                              call.yIsCol, Len(call.yv), p, call)))

RECURSIVE SumOver(_, _)
SumOver(S, f) ==
    IF S = {} THEN 0
    ELSE LET q == CHOOSE q \in S : TRUE
         IN  f[q].v + SumOver(S \ {q}, f)

\* the vectors of a call
VectorPairs(len) ==
    { [xv |-> [k \in 1..len |-> k], yv |-> [k \in 1..len |-> 2 * k + 1]],
      [xv |-> [k \in 1..len |-> len + 1 - k], yv |-> [k \in 1..len |-> 0 - k]] }

\* every process of the grid, of height x width processes, enters
\* Dotu( x, y ) with y in one of the distributions that have an overload; an
\* alignment of y is a rank of the communicator the dimension is dealt over;
\* T localDotu and T globalDotu are not initialized
DotuInit ==
    /\ IPFIdle
    /\ ScaleIdle
    /\ MshsIdle
    /\ \E g \in {<<1, 1>>, <<1, 2>>, <<2, 1>>, <<2, 2>>, <<2, 3>>},
          yd \in {"MC_MR", "MC_STAR", "STAR_MR", "MR_MC", "MR_STAR", "STAR_MC",
                  "VC_STAR", "STAR_VC", "VR_STAR", "STAR_VR", "STAR_STAR"},
          xc \in BOOLEAN, yc \in BOOLEAN, len \in 1..VecLen :
          \E vp \in VectorPairs(len),
             ca \in 0..(SizeOf(DealtOver(yd)[1], g) - 1),
             ra \in 0..(SizeOf(DealtOver(yd)[2], g) - 1) :
             dotCall = [height |-> g[1], width |-> g[2], yDist |-> yd,
                        xIsCol |-> xc, yIsCol |-> yc,
                        colAlign |-> ca, rowAlign |-> ra,
                        xv |-> vp.xv, yv |-> vp.yv]
    /\ dotPc = [p \in Procs(dotCall) |-> "Start"]
    /\ localDotu = [p \in Procs(dotCall) |-> [set |-> FALSE, v |-> 0]]
    /\ globalDotu = [p \in Procs(dotCall) |-> [set |-> FALSE, v |-> 0]]

\* xRedist.AlignWith( y ); xRedist = x; the process enters the redistribution,
\* an exchange among the processes of the grid that none of them leaves before
\* all of them have entered it
DotuRedistribute(p) ==
    /\ dotPc[p] = "Start"
    /\ dotPc' = [dotPc EXCEPT ![p] = "Redist"]
    /\ UNCHANGED <<ipfVars, scaleVars, mshsCall, mshs, dotCall, localDotu, globalDotu>>

\* out of the redistribution: an owner computes localDotu and enters the
\* AllReduce (in the cases without an AllReduce it computes globalDotu and
\* enters the Broadcast, or returns in the [* ,* ] overload, which has none),
\* any other process goes to the Broadcast
DotuEnter(p) ==
    /\ dotPc[p] = "Redist"
    /\ \A q \in Procs(dotCall) : dotPc[q] # "Start"
    /\ IF IsOwner(p, dotCall) /\ PlanOf(dotCall).reduce # "None"
       THEN /\ localDotu' = [localDotu EXCEPT
                                ![p] = [set |-> TRUE, v |-> LocalDotuOf(p, dotCall)]]
            /\ dotPc' = [dotPc EXCEPT ![p] = "AllReduce"]
            /\ UNCHANGED globalDotu
       ELSE IF IsOwner(p, dotCall)
       THEN /\ globalDotu' = [globalDotu EXCEPT
                                ![p] = [set |-> TRUE, v |-> LocalDotuOf(p, dotCall)]]
            /\ dotPc' = [dotPc EXCEPT
                           ![p] = IF PlanOf(dotCall).bcast = "None" THEN "Returned"
                                  ELSE "Broadcast"]
            /\ UNCHANGED localDotu
       ELSE /\ dotPc' = [dotPc EXCEPT ![p] = "Broadcast"]
            /\ UNCHANGED <<localDotu, globalDotu>>
    /\ UNCHANGED <<ipfVars, scaleVars, mshsCall, mshs, dotCall>>

\* AllReduce( &localDotu, &globalDotu, 1, MPI_SUM, comm ) returns once every
\* process of the communicator has contributed; the Broadcast follows where
\* the case has one
DotuAllReduce(p) ==
    /\ dotPc[p] = "AllReduce"
    /\ \A q \in Members(PlanOf(dotCall).reduce, p, dotCall) : localDotu[q].set
    /\ globalDotu' = [globalDotu EXCEPT
                        ![p] = [set |-> TRUE,
                                v |-> SumOver(Members(PlanOf(dotCall).reduce, p,
                                                      dotCall), localDotu)]]
    /\ dotPc' = [dotPc EXCEPT
                   ![p] = IF PlanOf(dotCall).bcast = "None" THEN "Returned"
                          ELSE "Broadcast"]
    /\ UNCHANGED <<ipfVars, scaleVars, mshsCall, mshs, dotCall, localDotu>>

\* Broadcast( &globalDotu, 1, owner, comm ): the root sends what it holds, the
\* others return with it once the root has sent; then return globalDotu
DotuBroadcast(p) ==
    /\ dotPc[p] = "Broadcast"
    /\ \E root \in BcastRoots(p, dotCall) :
          IF root = p
          THEN UNCHANGED globalDotu
          ELSE /\ dotPc[root] = "Returned"
               /\ globalDotu' = [globalDotu EXCEPT ![p] = globalDotu[root]]
    /\ dotPc' = [dotPc EXCEPT ![p] = "Returned"]
    /\ UNCHANGED <<ipfVars, scaleVars, mshsCall, mshs, dotCall, localDotu>>

DotuNext ==
    \E p \in Procs(dotCall) :
        \/ DotuRedistribute(p)
        \/ DotuEnter(p)
        \/ DotuAllReduce(p)
        \/ DotuBroadcast(p)

SpecDotu == DotuInit /\ [][DotuNext]_vars

(***************************************************************************)
(* Properties of Dotu.                                                     *)
(***************************************************************************)
\* the sum of x_i * y_i over the whole vectors
DotProduct == LocalDotu(dotCall.xv, dotCall.yv)

AllReturned == \A p \in Procs(dotCall) : dotPc[p] = "Returned"

\* process p is not blocked in the redistribution or in a collective
CanProceed(p) ==
    \/ dotPc[p] = "Start"
    \/ /\ dotPc[p] = "Redist"
       /\ \A q \in Procs(dotCall) : dotPc[q] # "Start"
    \/ /\ dotPc[p] = "AllReduce"
       /\ \A q \in Members(PlanOf(dotCall).reduce, p, dotCall) : localDotu[q].set
    \/ /\ dotPc[p] = "Broadcast"
       /\ \E root \in BcastRoots(p, dotCall) :
             root = p \/ dotPc[root] = "Returned"

\* C20: in each of the four shape cases of every overload, for every grid shape
\* and every alignment of y, every process that returns from Dotu returns a
\* globalDotu that was set and equals the sum of x_i * y_i, and no process
\* stays blocked in the redistribution, the AllReduce or the Broadcast.
C20_EveryProcessReturnsTheDotProduct ==
    /\ \A p \in Procs(dotCall) :
          dotPc[p] = "Returned" =>
              (globalDotu[p].set /\ globalDotu[p].v = DotProduct)
    /\ AllReturned \/ \E p \in Procs(dotCall) : CanProceed(p)

C20_Witness ==
    /\ AllReturned
    /\ dotCall.height = 2 /\ dotCall.width = 3
    /\ dotCall.yDist = "MR_MC" /\ dotCall.xIsCol /\ ~dotCall.yIsCol
    /\ dotCall.colAlign = 2 /\ dotCall.rowAlign = 1
    /\ Len(dotCall.xv) = 3
    /\ \A p \in Procs(dotCall) : globalDotu[p] = [set |-> TRUE, v |-> DotProduct]

\* C28: no case of any overload mismatches a collective: when a process has
\* entered the AllReduce, every process of its communicator has entered it or
\* is still on its way to it (none has gone past it to the Broadcast or
\* returned without it); every process that is in the Broadcast has exactly one
\* root in its communicator, the owner named by the alignment of y; a process
\* returns only out of the Broadcast, or out of the AllReduce in the cases that
\* have no Broadcast, or out of the redistribution in the [* ,* ] overload,
\* which has no collective after it; and while some process has not returned,
\* some process is able to move on.
C28_CollectivesNeverMismatch ==
    /\ [](\A p \in Procs(dotCall) :
            /\ localDotu[p].set =>
                  \A q \in Members(PlanOf(dotCall).reduce, p, dotCall) :
                      dotPc[q] \in {"Start", "Redist"} \/ localDotu[q].set
            /\ dotPc[p] = "AllReduce" => localDotu[p].set
            /\ dotPc[p] = "Broadcast" =>
                  /\ PlanOf(dotCall).bcast # "None"
                  /\ Cardinality(BcastRoots(p, dotCall)) = 1
                  /\ \A q \in Members(PlanOf(dotCall).bcast, p, dotCall) :
                        BcastRoots(q, dotCall) = BcastRoots(p, dotCall))
    /\ [](AllReturned \/ \E p \in Procs(dotCall) : CanProceed(p))
    /\ [][\A p \in Procs(dotCall) :
            (dotPc[p] # "Returned" /\ dotPc'[p] = "Returned") =>
                \/ dotPc[p] = "Broadcast"
                \/ dotPc[p] = "AllReduce" /\ PlanOf(dotCall).bcast = "None"
                \/ dotPc[p] = "Redist" /\ dotCall.yDist = "STAR_STAR"]_vars

\* a 2 x 3 grid on which the owner column has reduced over a whole column
\* communicator and every process has left the Broadcast
C28_Witness ==
    /\ AllReturned
    /\ dotCall.height = 2 /\ dotCall.width = 3
    /\ dotCall.yDist = "MC_MR" /\ dotCall.xIsCol /\ dotCall.yIsCol
    /\ dotCall.rowAlign = 2
    /\ \A p \in Procs(dotCall) : localDotu[p].set <=> MRRank(p) = 2
    /\ \A p \in Procs(dotCall) : globalDotu[p].set

(***************************************************************************)
(* MultiShiftHessSolve: the scalars.  A value of F is a rational or is not *)
(* finite (an infinity or a NaN, the result of a division by zero and of   *)
(* every operation on it) and has denominator 0.  A matrix is a sequence   *)
(* of columns, and Get and Set take the row and the column counted from 0  *)
(* as the source does.                                                     *)
(***************************************************************************)
NotFinite == <<1, 0>>

\* an entry of a matrix that was allocated and not written yet
Unwritten == <<0, 0>>

Plus(p, q) == IF p[2] # 0 /\ q[2] # 0 THEN RAdd(p, q) ELSE NotFinite

Minus(p, q) == IF p[2] # 0 /\ q[2] # 0 THEN RSub(p, q) ELSE NotFinite

Times(p, q) == IF p[2] # 0 /\ q[2] # 0 THEN RMul(p, q) ELSE NotFinite

\* p / q; the divisors of the solve, pivots and entries of W, are finite
Over(p, q) ==
    IF p[2] # 0 /\ q[2] # 0 /\ q[1] # 0 THEN RDiv(p, q) ELSE NotFinite

Get(M, i, j) == M[j + 1][i + 1]

Set(M, i, j, v) == [M EXCEPT ![j + 1][i + 1] = v]

\* the largest r in lo..hi with r * r <= n
RECURSIVE SqrtBetween(_, _, _)
SqrtBetween(n, lo, hi) ==
    IF lo = hi THEN lo
    ELSE LET mid == (lo + hi + 1) \div 2
         IN  IF mid * mid <= n THEN SqrtBetween(n, mid, hi)
             ELSE SqrtBetween(n, lo, mid - 1)

\* the rotation of the same norm with the sine negated
ComputeGivens_NegatedSine(phi, gamma) ==
    IF gamma = Zero THEN [cs |-> One, sn |-> Zero, rho |-> phi, rational |-> TRUE]
    ELSE IF phi = Zero
    THEN [cs |-> Zero, sn |-> <<-1, 1>>, rho |-> gamma, rational |-> TRUE]
    ELSE LET sq   == RAdd(RMul(phi, phi), RMul(gamma, gamma))
             nrm  == <<SqrtBetween(sq[1], 0, 46340), SqrtBetween(sq[2], 0, 46340)>>
         IN  [cs |-> RDiv(phi, nrm), sn |-> RNeg(RDiv(gamma, nrm)), rho |-> nrm,
              rational |-> nrm[1] * nrm[1] = sq[1] /\ nrm[2] * nrm[2] = sq[2]]

\* lapack::ComputeGivens( phi, gamma, &c, &s, &rho ), which is xLARTG:
\*   |  c        s | | phi   | = | rho |
\*   | -conj(s)  c | | gamma |   | 0   |
\* with rho = phi for gamma = 0, rho = gamma for phi = 0, and otherwise |rho|
\* the norm of (phi, gamma), negative when |phi| > |gamma| and phi < 0.
\* rational tells whether the norm is a rational, as it has to be for c and s
\* to be values of the model.
ComputeGivens(phi, gamma) ==
    IF gamma = Zero THEN [cs |-> One, sn |-> Zero, rho |-> phi, rational |-> TRUE]
    ELSE IF phi = Zero
    THEN [cs |-> Zero, sn |-> One, rho |-> gamma, rational |-> TRUE]
    ELSE LET sq   == RAdd(RMul(phi, phi), RMul(gamma, gamma))
             nrm  == <<SqrtBetween(sq[1], 0, 46340), SqrtBetween(sq[2], 0, 46340)>>
             flip == RLt(RAbs(gamma), RAbs(phi)) /\ phi[1] < 0
             r    == IF flip THEN RNeg(nrm) ELSE nrm
         IN  [cs |-> RDiv(phi, r), sn |-> RDiv(gamma, r), rho |-> r,
              rational |-> nrm[1] * nrm[1] = sq[1] /\ nrm[2] * nrm[2] = sq[2]]

(***************************************************************************)
(* mshs::LN and mshs::UN.  The sequential overload runs over the columns   *)
(* of X.  In the distributed overload every process runs the same loops    *)
(* over its local columns of X [* ,VX] and takes the shift of local column *)
(* jLoc from its local part of shifts [VX,* ]; the processes meet in the   *)
(* redistributions of the columns of H, one before W is filled and three   *)
(* in every pass of the first sweep, and nowhere else.  X, C, S, W, t1 and *)
(* t2 of the model hold the local matrices of all processes side by side,  *)
(* under the global index of each column.                                  *)
(***************************************************************************)
\* const Int m = X.Height()
Height(call) == IF call.X = << >> THEN 0 ELSE Len(call.X[1])

\* the global indices of the columns of X that process r stores and its loops
\* for( Int jLoc=0; jLoc<nLoc; ++jLoc ) run over: every column in the
\* sequential overload, the columns j with (j + X.RowAlign()) mod p = r in the
\* distributed one
LocalColumns(call, r) ==
    {j \in 0..(Len(call.X) - 1) : (j + call.rowAlign) % call.gridSize = r}

\* every column is solved with the first shift
ShiftOf_FirstColumn(call, j) == call.shifts[1]

\* shifts.Get( j, 0 ), shifts.GetLocal( jLoc, 0 ): the process that owns
\* column j, (j + X.RowAlign()) mod p, stores it as local column j div p, and
\* its local row j div p of shifts is the global row
\* ((rank - shifts.ColAlign()) mod p) + (j div p) * p
ShiftOf(call, j) ==
    LET rank == (j + call.rowAlign) % call.gridSize
    IN  call.shifts[((rank - call.colAlign) % call.gridSize)
                        + (j \div call.gridSize) * call.gridSize + 1]

\* Scale( alpha, X ) on the columns cols
Scale(a, M, cols) ==
    [j \in 1..Len(M) |->
        IF j - 1 \in cols THEN [i \in 1..Len(M[j]) |-> Times(a, M[j][i])]
        ELSE M[j]]

\* Matrix<Real> C(m,n); Matrix<F> S(m,n); Matrix<F> W(m,n) for the columns cols
Allocate(st, call, cols) ==
    LET Fresh(M) ==
            [j \in 1..Len(call.X) |->
                IF j - 1 \in cols THEN [i \in 1..Height(call) |-> Unwritten]
                ELSE IF M = << >> THEN << >> ELSE M[j]]
    IN  [st EXCEPT !.C = Fresh(@), !.S = Fresh(@), !.W = Fresh(@)]

\* column j of W is the first column of H and W(0,j) less shift j in LN, the
\* last column of H and W(m-1,j) less shift j in UN
InitW(st, call, cols) ==
    LET r == IF st.routine = "LN" THEN 1 ELSE Height(call)
    IN  [st EXCEPT
            !.W = [j \in 1..Len(call.X) |->
                      IF j - 1 \in cols
                      THEN [call.H[r] EXCEPT ![r] = Minus(@, ShiftOf(call, j - 1))]
                      ELSE @[j]]]

\* the body of the loops over k and j that find the LQ factorization and solve
\* against L
LNForwardBody(st, call, k, j) ==
    LET m         == Height(call)
        etakkp1   == Get(call.H, k, k + 1)
        etakp1kp1 == Get(call.H, k + 1, k + 1)
        g         == ComputeGivens(Get(st.W, k, j), etakkp1)
        lambdakk  == Plus(Times(g.cs, Get(st.W, k, j)), Times(g.sn, etakkp1))
        X1        == Set(st.X, k, j, Over(Get(st.X, k, j), lambdakk))
        mu        == ShiftOf(call, j)
        xc        == Times(Get(X1, k, j), g.cs)
        xs        == Times(Get(X1, k, j), g.sn)
        \* X.Update( k+1, j, -xc*W.Get(k+1,j)-xs*(etakp1kp1-mu) )
        X2        == Set(X1, k + 1, j,
                         Plus(Get(X1, k + 1, j),
                              Minus(Times(RNeg(xc), Get(st.W, k + 1, j)),
                                    Times(xs, Minus(etakp1kp1, mu)))))
        \* Axpy( -xc, wB, xB ); Axpy( -xs, hB, xB );
        X3        == [X2 EXCEPT ![j + 1] =
                         [i \in 1..m |->
                             IF i - 1 >= k + 2
                             THEN Minus(Minus(@[i], Times(xc, Get(st.W, i - 1, j))),
                                        Times(xs, Get(call.H, i - 1, k + 1)))
                             ELSE @[i]]]
        W1        == Set(st.W, k + 1, j,
                         Plus(Times(RNeg(g.sn), Get(st.W, k + 1, j)),
                              Times(g.cs, Minus(etakp1kp1, mu))))
        \* Scale( -Conj(s), wB ); Axpy( c, hB, wB );
        W2        == [W1 EXCEPT ![j + 1] =
                         [i \in 1..m |->
                             IF i - 1 >= k + 2
                             THEN Plus(Times(RNeg(g.sn), @[i]),
                                       Times(g.cs, Get(call.H, i - 1, k + 1)))
                             ELSE @[i]]]
    IN  [st EXCEPT !.X = X3, !.W = W2,
                   !.C = Set(@, k, j, g.cs),
                   !.S = Set(@, k, j, g.sn),
                   !.rational = @ /\ g.rational,
                   !.log = Append(@, <<"record", k, j>>)]

\* the body of the loops over k and j that form the RQ factorization and solve
\* against R
UNForwardBody(st, call, k, j) ==
    LET m         == Height(call)
        etakkm1   == Get(call.H, k, k - 1)
        etakm1km1 == Get(call.H, k - 1, k - 1)
        g         == ComputeGivens(Get(st.W, k, j), etakkm1)
        rhokk     == Plus(Times(g.cs, Get(st.W, k, j)), Times(g.sn, etakkm1))
        X1        == Set(st.X, k, j, Over(Get(st.X, k, j), rhokk))
        mu        == ShiftOf(call, j)
        xc        == Times(Get(X1, k, j), g.cs)
        xs        == Times(Get(X1, k, j), g.sn)
        \* Axpy( -xc, wT, xT ); Axpy( -xs, hT, xT );
        X2        == [X1 EXCEPT ![j + 1] =
                         [i \in 1..m |->
                             IF i - 1 < k - 1
                             THEN Minus(Minus(@[i], Times(xc, Get(st.W, i - 1, j))),
                                        Times(xs, Get(call.H, i - 1, k - 1)))
                             ELSE @[i]]]
        \* X.Update( k-1, j, -xc*W.Get(k-1,j)-xs*(etakm1km1-mu) )
        X3        == Set(X2, k - 1, j,
                         Plus(Get(X2, k - 1, j),
                              Minus(Times(RNeg(xc), Get(st.W, k - 1, j)),
                                    Times(xs, Minus(etakm1km1, mu)))))
        \* Scale( -Conj(s), wT ); Axpy( c, hT, wT );
        W1        == [st.W EXCEPT ![j + 1] =
                         [i \in 1..m |->
                             IF i - 1 < k - 1
                             THEN Plus(Times(RNeg(g.sn), @[i]),
                                       Times(g.cs, Get(call.H, i - 1, k - 1)))
                             ELSE @[i]]]
        W2        == Set(W1, k - 1, j,
                         Plus(Times(RNeg(g.sn), Get(W1, k - 1, j)),
                              Times(g.cs, Minus(etakm1km1, mu))))
    IN  [st EXCEPT !.X = X3, !.W = W2,
                   !.C = Set(@, k, j, g.cs),
                   !.S = Set(@, k, j, g.sn),
                   !.rational = @ /\ g.rational,
                   !.log = Append(@, <<"record", k, j>>)]

\* one pass of the loop over k of the first sweep, over the columns cols in
\* ascending order: for( Int j=0; j<n; ++j ) around the body
RECURSIVE ForwardColumns(_, _, _, _)
ForwardColumns(st, call, k, cols) ==
    IF cols = {} THEN st
    ELSE LET j == CHOOSE l \in cols : \A i \in cols : l <= i
         IN  ForwardColumns(IF st.routine = "LN"
                            THEN LNForwardBody(st, call, k, j)
                            ELSE UNForwardBody(st, call, k, j),
                            call, k, cols \ {j})

\* the first sweep has a pass for k: for( Int k=0; k<m-1; ++k ) in LN,
\* for( Int k=m-1; k>0; --k ) in UN
ForwardCond(st, call, k) ==
    IF st.routine = "LN" THEN k < Height(call) - 1 ELSE k > 0

\* the passes of the first sweep from k on, with ++k in LN and --k in UN
RECURSIVE ForwardSweep(_, _, _, _)
ForwardSweep(st, call, k, cols) ==
    IF ForwardCond(st, call, k)
    THEN ForwardSweep(ForwardColumns(st, call, k, cols), call,
                      IF st.routine = "LN" THEN k + 1 ELSE k - 1, cols)
    ELSE st

\* the loop of the second sweep starts at k = m - 1 in LN, a row without a
\* rotation
BackFirst_LastRow(st, call) ==
    IF st.routine = "LN" THEN Height(call) - 1 ELSE 1

\* for( Int k=m-2; ... in LN, for( Int k=1; ... in UN
BackFirst(st, call) ==
    IF st.routine = "LN" THEN Height(call) - 2 ELSE 1

\* Divide x(end) by L(end,end), or x(0) by R(0,0), in the columns cols in
\* ascending order; Matrix<F> t1(n,1), t2(n,1), with t1(j) set to that entry
\* of X
RECURSIVE Divide(_, _, _)
Divide(st, call, cols) ==
    IF cols = {} THEN st
    ELSE LET j == CHOOSE l \in cols : \A i \in cols : l <= i
             r == IF st.routine = "LN" THEN Height(call) - 1 ELSE 0
             v == Over(Get(st.X, r, j), Get(st.W, r, j))
             With(t, u) ==
                 [l \in 1..Len(call.X) |->
                     IF l = j + 1 THEN u
                     ELSE IF t = << >> THEN << >> ELSE t[l]]
         IN  Divide([st EXCEPT !.X = Set(@, r, j, v),
                               !.t1 = With(@, v),
                               !.t2 = With(@, Unwritten),
                               !.log = Append(@, <<"divide", r, j>>)],
                    call, cols \ {j})

\* the body of the loops over k and j that solve against Q; the row of X it
\* writes is k + 1 in LN and k - 1 in UN
BackBody(st, call, k, j) ==
    LET r   == IF st.routine = "LN" THEN k + 1 ELSE k - 1
        t2j == Get(st.X, k, j)
        t1j == st.t1[j + 1]
    IN  [st EXCEPT
            !.t2 = [@ EXCEPT ![j + 1] = t2j],
            !.X = Set(@, r, j, Plus(Times(Get(st.C, k, j), t1j),
                                    Times(Get(st.S, k, j), t2j))),
            !.t1 = [@ EXCEPT ![j + 1] = Minus(Times(Get(st.C, k, j), t2j),
                                              Times(Get(st.S, k, j), t1j))],
            !.log = Append(@, <<"apply", k, j,
                                Get(st.C, k, j) # Unwritten
                                    /\ Get(st.S, k, j) # Unwritten>>)]

\* one pass of the loop over k of the second sweep, over the columns cols in
\* ascending order: for( Int j=0; j<n; ++j ) around the body
RECURSIVE BackColumns(_, _, _, _)
BackColumns(st, call, k, cols) ==
    IF cols = {} THEN st
    ELSE LET j == CHOOSE l \in cols : \A i \in cols : l <= i
         IN  BackColumns(BackBody(st, call, k, j), call, k, cols \ {j})

\* the second sweep has a pass for k: for( ...; k>=0; --k ) in LN,
\* for( ...; k<m; ++k ) in UN
BackCond(st, call, k) ==
    IF st.routine = "LN" THEN k >= 0 ELSE k < Height(call)

\* the passes of the second sweep from k on, with --k in LN and ++k in UN
RECURSIVE BackSweep(_, _, _, _)
BackSweep(st, call, k, cols) ==
    IF BackCond(st, call, k)
    THEN BackSweep(BackColumns(st, call, k, cols), call,
                   IF st.routine = "LN" THEN k - 1 ELSE k + 1, cols)
    ELSE st

\* X.Set( 0, j, t1.Get(j,0) ) in LN, X.Set( m-1, j, t1.Get(j,0) ) in UN, for
\* the columns cols
Finish(st, call, cols) ==
    [st EXCEPT !.X = [j \in 1..Len(call.X) |->
                         IF j - 1 \in cols
                         THEN [@[j] EXCEPT ![IF st.routine = "LN" THEN 1
                                             ELSE Height(call)] = st.t1[j]]
                         ELSE @[j]]]

\* a MultiShiftHessSolve that takes every orientation for NORMAL
Dispatch_EveryOrientation(uplo, orientation) ==
    IF uplo = "LOWER" THEN "LN" ELSE "UN"

\* MultiShiftHessSolve: mshs::LN for LOWER and NORMAL, mshs::UN for UPPER and
\* NORMAL, and otherwise LogicError("This option is not yet supported")
Dispatch(uplo, orientation) ==
    IF uplo = "LOWER"
    THEN IF orientation = "NORMAL" THEN "LN" ELSE "NotSupported"
    ELSE IF orientation = "NORMAL" THEN "UN" ELSE "NotSupported"

\* the test if( m == 0 ) return; is never true
ReturnsAfterScale_Never(m) == FALSE

\* if( m == 0 ) return;
ReturnsAfterScale(m) == m = 0

\* The state at the entry of a call.  Every process has its own place pc,
\* loop index k, number coll of collectives it has entered and number due of
\* collectives it has to enter before the body of the pass of the first sweep
\* it is at.  routine and err are the routine that the processes past the
\* dispatch run and the error that the processes that raised have raised;
\* every process finds the same.
Entered(call) ==
    LET EveryProcess(v) == [r \in 0..(call.gridSize - 1) |-> v]
    IN  [pc |-> EveryProcess("Entry"), k |-> EveryProcess(0),
         coll |-> EveryProcess(0), due |-> EveryProcess(0),
         routine |-> "None", err |-> "None", X |-> call.X,
         C |-> << >>, S |-> << >>, W |-> << >>, t1 |-> << >>, t2 |-> << >>,
         rational |-> TRUE, log |-> << >>]

\* mshs::LN or mshs::UN, sequential, from Scale( alpha, X ) to its return
Solve(call) ==
    LET cols   == LocalColumns(call, 0)
        scaled == [Entered(call) EXCEPT
                      !.routine = Dispatch(call.uplo, call.orientation),
                      !.X = Scale(call.alpha, call.X, cols)]
        first  == IF scaled.routine = "LN" THEN 0 ELSE Height(call) - 1
    IN  IF ReturnsAfterScale(Height(call)) THEN scaled
        ELSE Finish(
                 BackSweep(
                     Divide(ForwardSweep(InitW(Allocate(scaled, call, cols),
                                               call, cols),
                                         call, first, cols),
                            call, cols),
                     call, BackFirst(scaled, call), cols),
                 call, cols)

(***************************************************************************)
(* The calls of MultiShiftHessSolve.                                       *)
(***************************************************************************)
\* Column j of W, from the pass k of the first sweep on, takes no value that
\* the scalars of the model do not follow as F does: the norm of every
\* rotation is a rational, and no divisor, lambdakk (rhokk) of a pass or the
\* final W(m-1,j) (W(0,j)), is zero.  With an irrational norm c and s are
\* irrational, and by a zero that rounding has turned into a residue F
\* divides to finite numbers.
RECURSIVE ExactColumn(_, _, _, _, _)
ExactColumn(call, routine, w, k, j) ==
    IF IF routine = "LN" THEN k < Height(call) - 1 ELSE k > 0
    THEN LET nb    == IF routine = "LN" THEN k + 1 ELSE k - 1
             eta   == Get(call.H, k, nb)
             g     == ComputeGivens(w[k + 1], eta)
             Beyond(i) == IF routine = "LN" THEN i > nb ELSE i < nb
             \* W.Set( k+1, j, -Conj(s)*W.Get(k+1,j)+c*(etakp1kp1-mu) );
             \* Scale( -Conj(s), wB ); Axpy( c, hB, wB );
             wNext == [i \in 1..Height(call) |->
                          IF i - 1 = nb
                          THEN Plus(Times(RNeg(g.sn), w[i]),
                                    Times(g.cs, Minus(Get(call.H, nb, nb),
                                                      ShiftOf(call, j))))
                          ELSE IF Beyond(i - 1)
                          THEN Plus(Times(RNeg(g.sn), w[i]),
                                    Times(g.cs, Get(call.H, i - 1, nb)))
                          ELSE w[i]]
         IN  /\ g.rational
             /\ Plus(Times(g.cs, w[k + 1]), Times(g.sn, eta)) # Zero
             /\ \E v \in {wNext} : ExactColumn(call, routine, v, nb, j)
    ELSE w[k + 1] # Zero

\* The calls that the model follows: those that return or raise before the
\* first sweep, and those whose every column, solved with the shift that the
\* call pairs with it, is one the exact scalars follow.
Representable(call) ==
    \/ Height(call) = 0
    \/ Dispatch(call.uplo, call.orientation) = "NotSupported"
    \/ call.dist /\ call.debug /\ call.colAlign # call.rowAlign
    \/ \A j \in 0..(Len(call.X) - 1) :
          \E r \in {IF call.uplo = "LOWER" THEN 1 ELSE Height(call)} :
             ExactColumn(call, IF call.uplo = "LOWER" THEN "LN" ELSE "UN",
                         [call.H[r] EXCEPT ![r] = Minus(@, ShiftOf(call, j))],
                         r - 1, j)

\* The calls.  H is m x m for m up to 3 with small integer entries, and one
\* with H(2,0) = 0 is upper Hessenberg, one with H(0,2) = 0 lower Hessenberg;
\* X has two columns, column j holding the right-hand side b_j on entry, and
\* shifts has two entries.  Every H is solved by the sequential overload with
\* alpha = 1; those with 3 on the diagonal and no 3 off it go, with the
\* shifts 0 and 6, through every orientation and alpha, the sequential
\* overload, and the distributed overload in a debug and in a release build
\* on grids of one and of two processes with every alignment of shifts and
\* of X.  Of these the call is one that is Representable.
MshsInit ==
    LET Hessenbergs(m) ==
            { [j \in 1..m |-> [i \in 1..m |->
                  <<IF i = j THEN dg[i]
                    ELSE IF j = i + 1 THEN sp[i]
                    ELSE IF i = j + 1 THEN sb[j]
                    ELSE IF j > i THEN cn[1] ELSE cn[2], 1>>]] :
                dg \in [1..m -> {3, 4}], sp \in [1..(m - 1) -> {0, 3, 4}],
                sb \in [1..(m - 1) -> {0, 3, 4}],
                cn \in IF m < 3 THEN {<<0, 0>>}
                       ELSE {<<0, 0>>, <<2, 0>>, <<0, 2>>} }
        FewHessenbergs(m) ==
            { h \in Hessenbergs(m) :
                \A j \in 1..m : \A i \in 1..m : h[j][i] = <<3, 1>> <=> i = j }
        RightHandSides(m) ==
            [j \in 1..2 |-> [i \in 1..m |-> <<2 * i - 3 * j + 2, 1>>]]
        Overloads ==
            {[dist |-> FALSE, debug |-> FALSE, gridSize |-> 1, colAlign |-> 0,
              rowAlign |-> 0]}
            \cup {[dist |-> TRUE, debug |-> dbg, gridSize |-> p,
                   colAlign |-> ca, rowAlign |-> ra] :
                     dbg \in BOOLEAN, p \in {1, 2}, ca \in {0, 1}, ra \in {0, 1}}
        Sequential(ul, h, sh) ==
            [uplo |-> ul, orientation |-> "NORMAL", alpha |-> One, H |-> h,
             shifts |-> sh, X |-> RightHandSides(Len(h)),
             dist |-> FALSE, debug |-> FALSE, gridSize |-> 1,
             colAlign |-> 0, rowAlign |-> 0]
        Calls ==
            UNION { { Sequential(ul, h, sh) : h \in Hessenbergs(m) }
                    \cup { [Sequential(ul, h, sh) EXCEPT
                                !.orientation = o, !.alpha = a,
                                !.dist = ov.dist, !.debug = ov.debug,
                                !.gridSize = ov.gridSize,
                                !.colAlign = ov.colAlign,
                                !.rowAlign = ov.rowAlign] :
                            h \in IF sh[2] = <<6, 1>> THEN FewHessenbergs(m) ELSE {},
                            o \in {"NORMAL", "TRANSPOSE", "ADJOINT"},
                            a \in {One, <<2, 1>>},
                            ov \in { w \in Overloads :
                                        /\ w.colAlign < w.gridSize
                                        /\ w.rowAlign < w.gridSize } } :
                    m \in 0..3, ul \in {"LOWER", "UPPER"},
                    sh \in {<<Zero, <<3, 1>>>>, <<<<3, 1>>, Zero>>,
                            <<One, <<-1, 1>>>>, <<Zero, <<6, 1>>>>} }
    IN  /\ IPFIdle
        /\ ScaleIdle
        /\ DotuIdle
        /\ mshsCall \in {call \in Calls : Representable(call)}
        /\ mshs = Entered(mshsCall)

\* MultiShiftHessSolve( uplo, orientation, alpha, H, shifts, X ) in process r
MshsDispatch(r) ==
    /\ mshs.pc[r] = "Entry"
    /\ LET d == Dispatch(mshsCall.uplo, mshsCall.orientation)
       IN  mshs' = IF d = "NotSupported"
                   THEN [mshs EXCEPT !.pc[r] = "Raised", !.err = "NotSupported"]
                   ELSE [mshs EXCEPT !.pc[r] = "Check", !.routine = d]
    /\ UNCHANGED <<ipfVars, scaleVars, dotVars, mshsCall>>

\* DEBUG_ONLY( ... ) of the distributed overloads: compiled in a debug build
AlignmentChecked(call) == call.dist /\ call.debug

\* if( shifts.ColAlign() != X.RowAlign() )
\*     LogicError("shifts and X are not aligned");
MshsCheck(r) ==
    /\ mshs.pc[r] = "Check"
    /\ mshs' = IF AlignmentChecked(mshsCall)
                  /\ mshsCall.colAlign # mshsCall.rowAlign
               THEN [mshs EXCEPT !.pc[r] = "Raised", !.err = "NotAligned"]
               ELSE [mshs EXCEPT !.pc[r] = "Scale"]
    /\ UNCHANGED <<ipfVars, scaleVars, dotVars, mshsCall>>

\* Scale( alpha, X ) on the local columns; if( m == 0 ) return;
MshsScale(r) ==
    /\ mshs.pc[r] = "Scale"
    /\ mshs' = [mshs EXCEPT
                   !.X = Scale(mshsCall.alpha, @, LocalColumns(mshsCall, r)),
                   !.pc[r] = IF ReturnsAfterScale(Height(mshsCall)) THEN "Done"
                             ELSE "Alloc"]
    /\ UNCHANGED <<ipfVars, scaleVars, dotVars, mshsCall>>

\* the storage of the rotations and the workspace W; in the distributed
\* overload the process then enters DistMatrix<F,STAR,STAR> h0_STAR_STAR( h0 )
\* in LN, hLast_STAR_STAR( hLast ) in UN
MshsAlloc(r) ==
    /\ mshs.pc[r] = "Alloc"
    /\ mshs' = [Allocate(mshs, mshsCall, LocalColumns(mshsCall, r)) EXCEPT
                   !.pc[r] = "InitW",
                   !.coll[r] = IF mshsCall.dist THEN @ + 1 ELSE @]
    /\ UNCHANGED <<ipfVars, scaleVars, dotVars, mshsCall>>

\* the local columns of W are filled and the first sweep starts at its first
\* k; a process leaves the collective it is in when every process has entered
\* it
MshsInitW(r) ==
    /\ mshs.pc[r] = "InitW"
    /\ \A q \in DOMAIN mshs.pc : mshs.coll[q] >= mshs.coll[r]
    /\ LET first == IF mshs.routine = "LN" THEN 0 ELSE Height(mshsCall) - 1
       IN  mshs' = [InitW(mshs, mshsCall, LocalColumns(mshsCall, r)) EXCEPT
                       !.pc[r] = "Forward",
                       !.k[r] = first,
                       !.due[r] = IF mshsCall.dist
                                     /\ ForwardCond(mshs, mshsCall, first)
                                  THEN 3 ELSE 0]
    /\ UNCHANGED <<ipfVars, scaleVars, dotVars, mshsCall>>

\* the process enters the next collective of its pass of the first sweep:
\* hB_STAR_STAR = hB, then H.Get(k,k+1), then H.Get(k+1,k+1) in LN, and
\* hT_STAR_STAR = hT, H.Get(k,k-1), H.Get(k-1,k-1) in UN
MshsCollective(r) ==
    /\ mshs.pc[r] = "Forward"
    /\ mshs.due[r] > 0
    /\ \A q \in DOMAIN mshs.pc : mshs.coll[q] >= mshs.coll[r]
    /\ mshs' = [mshs EXCEPT !.coll[r] = @ + 1, !.due[r] = @ - 1]
    /\ UNCHANGED <<ipfVars, scaleVars, dotVars, mshsCall>>

\* one pass of the loop over k of the first sweep over the local columns,
\* after the collectives of the pass
MshsForward(r) ==
    /\ mshs.pc[r] = "Forward"
    /\ ForwardCond(mshs, mshsCall, mshs.k[r])
    /\ mshs.due[r] = 0
    /\ \A q \in DOMAIN mshs.pc : mshs.coll[q] >= mshs.coll[r]
    /\ LET next == IF mshs.routine = "LN" THEN mshs.k[r] + 1 ELSE mshs.k[r] - 1
       IN  mshs' = [ForwardColumns(mshs, mshsCall, mshs.k[r],
                                   LocalColumns(mshsCall, r)) EXCEPT
                       !.k[r] = next,
                       !.due[r] = IF mshsCall.dist
                                     /\ ForwardCond(mshs, mshsCall, next)
                                  THEN 3 ELSE 0]
    /\ UNCHANGED <<ipfVars, scaleVars, dotVars, mshsCall>>

\* the first sweep has ended: the division by the last pivot, t1 and t2, and
\* the second sweep starts at its first k
MshsDivide(r) ==
    /\ mshs.pc[r] = "Forward"
    /\ ~ForwardCond(mshs, mshsCall, mshs.k[r])
    /\ mshs' = [Divide(mshs, mshsCall, LocalColumns(mshsCall, r)) EXCEPT
                   !.pc[r] = "Back",
                   !.k[r] = BackFirst(mshs, mshsCall)]
    /\ UNCHANGED <<ipfVars, scaleVars, dotVars, mshsCall>>

\* one pass of the loop over k of the second sweep over the local columns
MshsBack(r) ==
    /\ mshs.pc[r] = "Back"
    /\ BackCond(mshs, mshsCall, mshs.k[r])
    /\ mshs' = [BackColumns(mshs, mshsCall, mshs.k[r],
                            LocalColumns(mshsCall, r)) EXCEPT
                   !.k[r] = IF mshs.routine = "LN" THEN @ - 1 ELSE @ + 1]
    /\ UNCHANGED <<ipfVars, scaleVars, dotVars, mshsCall>>

\* the second sweep has ended: t1 goes to the first (last) row of X; return
MshsFinish(r) ==
    /\ mshs.pc[r] = "Back"
    /\ ~BackCond(mshs, mshsCall, mshs.k[r])
    /\ mshs' = [Finish(mshs, mshsCall, LocalColumns(mshsCall, r)) EXCEPT
                   !.pc[r] = "Done"]
    /\ UNCHANGED <<ipfVars, scaleVars, dotVars, mshsCall>>

\* a step of one process of the grid, of the one there is in a sequential call
MshsNext ==
    \E r \in DOMAIN mshs.pc :
        \/ MshsDispatch(r)
        \/ MshsCheck(r)
        \/ MshsScale(r)
        \/ MshsAlloc(r)
        \/ MshsInitW(r)
        \/ MshsCollective(r)
        \/ MshsForward(r)
        \/ MshsDivide(r)
        \/ MshsBack(r)
        \/ MshsFinish(r)

SpecMshs == MshsInit /\ [][MshsNext]_vars

(***************************************************************************)
(* Properties of MultiShiftHessSolve.                                      *)
(***************************************************************************)
\* H - shift_j * I
Shifted(call, j) ==
    [l \in 1..Height(call) |->
        [i \in 1..Height(call) |->
            IF i = l THEN Minus(call.H[l][i], call.shifts[j + 1])
            ELSE call.H[l][i]]]

\* the determinant of a matrix of up to three rows
Det(M) ==
    IF Len(M) = 0 THEN One
    ELSE IF Len(M) = 1 THEN M[1][1]
    ELSE IF Len(M) = 2
    THEN Minus(Times(M[1][1], M[2][2]), Times(M[2][1], M[1][2]))
    ELSE Plus(Minus(Times(M[1][1], Minus(Times(M[2][2], M[3][3]),
                                         Times(M[3][2], M[2][3]))),
                    Times(M[2][1], Minus(Times(M[1][2], M[3][3]),
                                         Times(M[3][2], M[1][3])))),
              Times(M[3][1], Minus(Times(M[1][2], M[2][3]),
                                   Times(M[2][2], M[1][3]))))

Nonsingular(call, j) == Det(Shifted(call, j)) # Zero

\* entry i of M * v
RECURSIVE RowTimesUpTo(_, _, _, _)
RowTimesUpTo(M, v, i, l) ==
    IF l = 0 THEN Zero
    ELSE Plus(RowTimesUpTo(M, v, i, l - 1), Times(M[l][i], v[l]))

\* (H - shift_j * I) x_j = alpha * b_j for the column j of X now and on entry
Solves(call, j) ==
    \A i \in 1..Height(call) :
        RowTimesUpTo(Shifted(call, j), mshs.X[j + 1], i, Height(call))
            = Times(call.alpha, call.X[j + 1][i])

\* H(i,j) = 0 for i > j + 1
UpperHessenberg(h) == \A j \in 1..Len(h) : \A i \in 1..Len(h) : i > j + 1 => h[j][i] = Zero

\* H(i,j) = 0 for j > i + 1
LowerHessenberg(h) == \A j \in 1..Len(h) : \A i \in 1..Len(h) : j > i + 1 => h[j][i] = Zero

\* every column of X is solved with the shift of its own index: the
\* sequential overload, and the distributed one on aligned operands
OwnShifts(call) == ~call.dist \/ call.colAlign = call.rowAlign

\* every process has returned from the call
Returned == \A r \in DOMAIN mshs.pc : mshs.pc[r] = "Done"

\* C21, as stated: for an upper Hessenberg H and alpha = 1, the X that
\* mshs::LN and mshs::UN return satisfies (H - shift_j*I) x_j = b_j in every
\* column j whose H - shift_j*I is nonsingular.
C21_SolvesUpperHessenberg ==
    (Returned /\ OwnShifts(mshsCall) /\ mshsCall.alpha = One
        /\ UpperHessenberg(mshsCall.H)) =>
        \A j \in 0..(Len(mshsCall.X) - 1) :
            Nonsingular(mshsCall, j) => Solves(mshsCall, j)

\* C21, amended: for an H that is lower Hessenberg in mshs::LN and upper
\* Hessenberg in mshs::UN, the X returned satisfies
\* (H - shift_j*I) x_j = alpha * b_j, which is b_j for alpha = 1, in every
\* column j whose H - shift_j*I is nonsingular.
C21_SolvesHessenbergOfItsUplo ==
    (Returned /\ OwnShifts(mshsCall)
        /\ IF mshs.routine = "LN" THEN LowerHessenberg(mshsCall.H)
           ELSE UpperHessenberg(mshsCall.H)) =>
        \A j \in 0..(Len(mshsCall.X) - 1) :
            Nonsingular(mshsCall, j) => Solves(mshsCall, j)

\* a rotation that is neither the identity nor a swap
Rotates(j) ==
    \E i \in 1..Height(mshsCall) :
        /\ mshs.C[j + 1][i] \notin {Zero, One, Unwritten}
        /\ mshs.S[j + 1][i] \notin {Zero, One, Unwritten}

\* LN has solved both columns of a 3 x 3 lower Hessenberg system with
\* H(2,0) # 0, with a proper rotation in each column
C21_Witness ==
    /\ Returned /\ mshs.routine = "LN" /\ ~mshsCall.dist
    /\ Height(mshsCall) = 3
    /\ mshsCall.H[1][3] # Zero
    /\ \A j \in {0, 1} : Nonsingular(mshsCall, j) /\ Solves(mshsCall, j) /\ Rotates(j)

\* C22: when X has height 0, mshs::LN and mshs::UN, sequential and
\* distributed, go in every process from Scale( alpha, X ) straight to the
\* return: no process enters a collective, C, S, W, t1 and t2 are never
\* allocated, no pass of either sweep and no division runs, and the local
\* columns of X are changed by nothing but the scaling by alpha.
C22_HeightZeroReturnsAfterScale ==
    Height(mshsCall) = 0 =>
        /\ \A r \in DOMAIN mshs.pc :
              /\ mshs.pc[r] \in {"Entry", "Check", "Scale", "Done", "Raised"}
              /\ mshs.coll[r] = 0
              /\ \A j \in LocalColumns(mshsCall, r) :
                    mshs.X[j + 1]
                        = IF mshs.pc[r] = "Done"
                          THEN Scale(mshsCall.alpha, mshsCall.X, {j})[j + 1]
                          ELSE mshsCall.X[j + 1]
        /\ mshs.C = << >> /\ mshs.S = << >> /\ mshs.W = << >>
        /\ mshs.t1 = << >> /\ mshs.t2 = << >>
        /\ mshs.log = << >>

\* the distributed mshs::UN has returned in both processes of a grid from a
\* call with alpha = 2 and an X of height 0 and width 2
C22_Witness ==
    /\ Returned /\ Height(mshsCall) = 0 /\ Len(mshsCall.X) = 2
    /\ mshs.routine = "UN" /\ mshsCall.dist /\ mshsCall.alpha = <<2, 1>>
    /\ mshsCall.gridSize = 2
    /\ mshs.W = << >> /\ mshs.log = << >>

\* C23: MultiShiftHessSolve, sequential and distributed, runs in every
\* process mshs::LN for LOWER and mshs::UN for UPPER when the orientation is
\* NORMAL and neither raises nor skips the routine; for every other
\* orientation and either uplo every process goes from its entry to the
\* LogicError "This option is not yet supported", no routine runs and X is as
\* it was on entry, not scaled.
C23_OnlyNormalIsImplemented ==
    IF mshsCall.orientation = "NORMAL"
    THEN /\ mshs.err # "NotSupported"
         /\ \A r \in DOMAIN mshs.pc :
                mshs.pc[r] # "Entry" =>
                    mshs.routine = IF mshsCall.uplo = "LOWER" THEN "LN" ELSE "UN"
    ELSE /\ \A r \in DOMAIN mshs.pc :
                /\ mshs.pc[r] \in {"Entry", "Raised"}
                /\ mshs.pc[r] = "Raised" => mshs.err = "NotSupported"
         /\ mshs.routine = "None"
         /\ mshs.X = mshsCall.X
         /\ mshs.W = << >> /\ mshs.log = << >>

\* the distributed overload has raised in both processes of a grid for UPPER
\* and ADJOINT with alpha = 2 and a 3 x 2 matrix X that the scaling would
\* have changed
C23_Witness ==
    /\ mshsCall.gridSize = 2
    /\ \A r \in DOMAIN mshs.pc : mshs.pc[r] = "Raised"
    /\ mshs.err = "NotSupported"
    /\ mshsCall.orientation = "ADJOINT" /\ mshsCall.uplo = "UPPER"
    /\ mshsCall.dist /\ mshsCall.alpha = <<2, 1>>
    /\ Height(mshsCall) = 3
    /\ mshs.X = mshsCall.X
    /\ Scale(mshsCall.alpha, mshsCall.X, {0, 1}) # mshsCall.X

\* the distributed mshs::LN or mshs::UN is called on operands with
\* shifts.ColAlign() != X.RowAlign()
Misaligned(call) ==
    /\ call.dist /\ call.orientation = "NORMAL"
    /\ call.colAlign # call.rowAlign

\* no process has gone past the alignment check or has changed anything
NothingRun ==
    /\ \A r \in DOMAIN mshs.pc :
          /\ mshs.pc[r] \in {"Entry", "Check", "Raised"}
          /\ mshs.pc[r] = "Raised" => mshs.err = "NotAligned"
    /\ mshs.X = mshsCall.X
    /\ mshs.W = << >> /\ mshs.log = << >>

\* C24: whenever the distributed mshs::LN or mshs::UN is called with
\* shifts.ColAlign() != X.RowAlign(), the LogicError is raised before X is
\* scaled or modified and the solve never runs.
C24_MisalignedAlwaysRaises ==
    Misaligned(mshsCall) => NothingRun

\* the places in the log of the events of one kind of process r
Places(kind, r) ==
    {i \in 1..Len(mshs.log) :
        mshs.log[i][1] = kind /\ mshs.log[i][3] \in LocalColumns(mshsCall, r)}

\* the values of k, or the row for a division, of the events of one kind for
\* column j, in the order in which they happened
RowsOf(kind, j) ==
    LET evs == SelectSeq(mshs.log, LAMBDA ev : ev[1] = kind /\ ev[3] = j)
    IN  [i \in 1..Len(evs) |-> evs[i][2]]

\* the order in which the first sweep records the rotations of a column
RecordOrder ==
    [i \in 1..(Height(mshsCall) - 1) |->
        IF mshs.routine = "LN" THEN i - 1 ELSE Height(mshsCall) - i]

\* C27: in mshs::LN and mshs::UN, in the sequential call and in every process
\* of the distributed one, every division by the final pivot comes after
\* every pass of the first sweep and before every pass of the second, no
\* pass of the second sweep reads an entry of C or S that the first sweep
\* did not write, and on return every column j has had its rotations
\* recorded once each for k = 0..m-2 (LN) or k = m-1..1 (UN), its last (LN)
\* or first (UN) row divided once, and the same rotations applied once each
\* in the reverse order.
C27_SecondSweepReversesTheFirst ==
    /\ \A r \in DOMAIN mshs.pc :
          /\ \A e \in Places("record", r), d \in Places("divide", r) : e < d
          /\ \A d \in Places("divide", r), a \in Places("apply", r) : d < a
          /\ \A a \in Places("apply", r) : mshs.log[a][4]
    /\ (Returned /\ Height(mshsCall) > 0) =>
          \A j \in 0..(Len(mshsCall.X) - 1) :
              /\ RowsOf("record", j) = RecordOrder
              /\ RowsOf("divide", j)
                    = <<IF mshs.routine = "LN" THEN Height(mshsCall) - 1 ELSE 0>>
              /\ RowsOf("apply", j)
                    = [i \in 1..Len(RecordOrder) |->
                          RecordOrder[Len(RecordOrder) + 1 - i]]

\* mshs::UN has returned in both processes of a grid from a 3 x 3 solve with
\* a proper rotation in column 0 and two rotations recorded and applied in
\* each column, the process of column 1 having made the last pass of its
\* first sweep after the process of column 0 had ended its second
C27_Witness ==
    /\ Returned /\ mshs.routine = "UN" /\ Height(mshsCall) = 3
    /\ mshsCall.gridSize = 2
    /\ \E i \in 1..(Len(mshs.log) - 1) :
          /\ mshs.log[i] = <<"apply", 2, 0, TRUE>>
          /\ mshs.log[i + 1] = <<"record", 1, 1>>
    /\ Rotates(0)
    /\ \A j \in {0, 1} :
          /\ RowsOf("record", j) = <<2, 1>>
          /\ RowsOf("apply", j) = <<1, 2>>

\* the call with the same uplo, alpha and H that has column j of X as its only
\* right-hand side and shift j as its only shift
ColumnCall(call, j) ==
    [call EXCEPT !.shifts = <<call.shifts[j + 1]>>, !.X = <<call.X[j + 1]>>,
                 !.dist = FALSE, !.debug = FALSE, !.gridSize = 1,
                 !.colAlign = 0, !.rowAlign = 0]

\* column j of X, W, C, S and entry j of t1, t2 are those of the run st
SameColumn(j, st) ==
    /\ mshs.X[j + 1] = st.X[1]
    /\ mshs.W[j + 1] = st.W[1]
    /\ mshs.C[j + 1] = st.C[1]
    /\ mshs.S[j + 1] = st.S[1]
    /\ mshs.t1[j + 1] = st.t1[1]
    /\ mshs.t2[j + 1] = st.t2[1]

\* C30: when mshs::LN or mshs::UN returns, column j of X and of W, C, S and
\* entry j of t1, t2 are what the routine computes from alpha, H, shift j and
\* the input column j alone, so that no other column of X and no other shift
\* has a part in them.
C30_ColumnsAreIndependent ==
    (Returned /\ Height(mshsCall) > 0 /\ OwnShifts(mshsCall)) =>
        \A j \in 0..(Len(mshsCall.X) - 1) :
            SameColumn(j, Solve(ColumnCall(mshsCall, j)))

\* mshs::LN has returned from a sequential 3 x 3 solve with alpha = 2 and two
\* different shifts; column 1 is the solve of its own column and shift, and
\* with the other shift the same column would have come out differently
C30_Witness ==
    /\ Returned /\ mshs.routine = "LN" /\ ~mshsCall.dist
    /\ Height(mshsCall) = 3 /\ mshsCall.alpha = <<2, 1>>
    /\ mshsCall.shifts[1] # mshsCall.shifts[2]
    /\ mshsCall.X[1] # mshsCall.X[2]
    /\ SameColumn(1, Solve(ColumnCall(mshsCall, 1)))
    /\ mshs.X[2] # Solve([ColumnCall(mshsCall, 1) EXCEPT
                             !.shifts = <<mshsCall.shifts[1]>>]).X[1]

====
